---- MODULE Spec2Model ----
(***************************************************************************)
(* The StaticWeb WSGI middleware of swift/common/middleware/staticweb.py   *)
(* as a state machine.                                                     *)
(*                                                                         *)
(* A Python string is a sequence of tokens, "/" being a token of its own,  *)
(* so that concatenation is \o, s[-1] is the last token and split('/') is  *)
(* a real split.  The one StaticWeb instance of a worker is shared by all  *)
(* the requests it handles: its attributes are the variable self.          *)
(* Each action is the completion of one pending I/O call of a request (a   *)
(* backend sub-request or a memcache call) followed by the code that runs  *)
(* up to the next I/O call; these are the points where greenthreads        *)
(* switch.                                                                 *)
(***************************************************************************)
EXTENDS Integers, Sequences, FiniteSets, TLC

VARIABLES
    self,       \* the attributes of the StaticWeb instance
    cache,      \* memcache: key -> cached (index, error, listing_css) or None
    backend,    \* the cluster behind self.app: container metadata, answers given
    req,        \* per request slot: environment, position, locals, what it sent and got
    nreq,       \* requests started so far
    mode,       \* "seq", "stable" or "conc": how requests arrive
    invalidated, \* keys deleted by a PUT/POST and not looked up since, each with
                \* whether the delete found an entry (history)
    table,      \* the listing renderer of _listing: the JSON array, the prefix, the rows
    quota       \* the request in AccountQuotaMiddleware.__call__

vars == <<self, cache, backend, req, nreq, mode, invalidated, table, quota>>

(***************************************************************************)
(* Bounds                                                                  *)
(***************************************************************************)
MaxRequests == 2

\* entries of a listing given to the renderer
MaxEntries == 3

\* the largest count of bytes: of an account, a quota, a write
MaxBytes == 2

Reqs == {"r1", "r2"}

(***************************************************************************)
(* Strings                                                                 *)
(***************************************************************************)
None == <<"<None>">>
Empty == << >>
Slash == <<"/">>

\* Python truthiness: `not s` for None and ''
Falsy(s) == s = None \/ s = Empty

\* s[-1] != '/'
NoTrailingSlash(s) == s = Empty \/ s[Len(s)] # "/"

\* the position of the first "/" of s, 0 when there is none
FirstSlash(s) ==
    IF \E i \in 1..Len(s) : s[i] = "/"
    THEN CHOOSE i \in 1..Len(s) : s[i] = "/" /\ \A j \in 1..(i - 1) : s[j] # "/"
    ELSE 0

\* s.split('/', n); the rest of s is bound as a value before it is split
RECURSIVE Split(_, _)
Split(s, n) ==
    LET i == FirstSlash(s)
    IN  IF n = 0 \/ i = 0
        THEN <<s>>
        ELSE <<SubSeq(s, 1, i - 1)>>
             \o CHOOSE rest \in {Split(t, n - 1) : t \in {SubSeq(s, i + 1, Len(s))}} : TRUE

\* s.strip()
RECURSIVE Strip(_)
Strip(s) ==
    IF s = Empty THEN s
    ELSE IF Head(s) = " " THEN Strip(Tail(s))
    ELSE IF s[Len(s)] = " " THEN Strip(SubSeq(s, 1, Len(s) - 1))
    ELSE s

\* '%s' % status_int
StatusStr(n) ==
    CASE n = 200 -> <<"200">>
      [] n = 301 -> <<"301">>
      [] n = 304 -> <<"304">>
      [] n = 403 -> <<"403">>
      [] n = 404 -> <<"404">>
      [] OTHER   -> <<"500">>

\* urllib.quote: "/" and names of letters, digits, '.', '_', '-' stay, a space
\* becomes %20
Quote(s) == [i \in 1..Len(s) |-> IF s[i] = " " THEN "%20" ELSE s[i]]

\* swift.common.utils.split_path(path, 2, 4, True), segs being the value of
\* path.split('/', 4)
split_path(path) ==
    CHOOSE result \in
      {LET count == Len(segs)
           bad == \/ segs[1] # Empty
                  \/ count < 3
                  \/ count > 5
                  \/ segs[2] = Empty
                  \/ segs[3] = Empty
       IN  IF bad
           THEN [ok |-> FALSE, version |-> None, account |-> None,
                 container |-> None, obj |-> None]
           ELSE [ok |-> TRUE, version |-> segs[2], account |-> segs[3],
                 container |-> IF count >= 4 THEN segs[4] ELSE None,
                 obj |-> IF count >= 5 THEN segs[5] ELSE None] :
       segs \in {Split(path, 4)}} : TRUE

\* swift.common.utils.TRUE_VALUES
TRUE_VALUES == {<<"true">>, <<"1">>, <<"yes">>, <<"on">>, <<"t">>, <<"y">>}

\* '/%s/%s/%s' % (version, account, container)
ContainerPath(v, a, c) == Slash \o v \o Slash \o a \o Slash \o c

\* '/staticweb/%s/%s/%s' % (version, account, container)
MemcacheKey(v, a, c) == <<"/", "staticweb">> \o ContainerPath(v, a, c)

(***************************************************************************)
(* WSGI environments, responses                                            *)
(***************************************************************************)
NoMeta == <<Empty, Empty, Empty>>

\* the keys of a WSGI environment that the middleware or the claims look at;
\* HTTP_IF says whether some HTTP_IF_* key is present
Env(method, path, qs, user, webmode, ifs, swiftcache, trans, agent, meta) ==
    [REQUEST_METHOD |-> method, PATH_INFO |-> path, QUERY_STRING |-> qs,
     REMOTE_USER |-> user, HTTP_X_WEB_MODE |-> webmode, HTTP_IF |-> ifs,
     swift_cache |-> swiftcache, HTTP_X_CF_TRANS_ID |-> trans,
     HTTP_USER_AGENT |-> agent, X_CONTAINER_META |-> meta]

NoEnv == Env("", Empty, Empty, FALSE, Empty, FALSE, FALSE, None, None, NoMeta)

\* response headers and bodies are known by the sub-request that produced them
Headers(src, path, qs, meta, location, ctype) ==
    [src |-> src, path |-> path, qs |-> qs, index |-> meta[1], error |-> meta[2],
     css |-> meta[3], location |-> location, ctype |-> ctype]

NoHeaders == Headers("none", Empty, Empty, NoMeta, Empty, Empty)

Body(src, path, qs, items) == [src |-> src, path |-> path, qs |-> qs, items |-> items]

NoBody == Body("none", Empty, Empty, FALSE)

\* _strip_ifs(env)
strip_ifs(env) == [env EXCEPT !.HTTP_IF = FALSE]

\* the query strings of _listing and of the pseudo-directory probe
ListingQuery(prefix) ==
    IF Falsy(prefix)
    THEN <<"delimiter=/&format=json">>
    ELSE <<"delimiter=/&format=json", "&prefix=">> \o Quote(prefix)

ProbeQuery(obj) ==
    <<"limit=1&format=json&delimiter=/&limit=1", "&prefix=">> \o Quote(obj \o Slash)

IsListingQuery(qs) == qs # Empty

\* the prefix a listing query asks for
QueryPrefix(qs) == IF Len(qs) >= 2 THEN SubSeq(qs, 3, Len(qs)) ELSE Empty

(***************************************************************************)
(* The requests that arrive and the cluster behind self.app                *)
(***************************************************************************)
Containers == {<<"c1">>, <<"c2">>}

Root(c) == ContainerPath(<<"v1">>, <<"a">>, c)

\* the paths of container c1: its root and one pseudo-directory name, each
\* with and without "/"
StaticPaths ==
    {Root(<<"c1">>), Root(<<"c1">>) \o Slash, Root(<<"c1">>) \o <<"/", "dir">>,
     Root(<<"c1">>) \o <<"/", "dir", "/">>}

\* with them the root and an object of another container, an account path and
\* a path split_path rejects
Paths ==
    StaticPaths
    \cup {Root(<<"c2">>), Root(<<"c2">>) \o <<"/", "dir">>,
          <<"/", "v1", "/", "a">>, <<"/", "v1">>}

\* values of x-container-meta-index, -error and -listing-css as stored
MetaChoices ==
    {NoMeta,
     <<<<"index.html">>, Empty, Empty>>,
     <<<<" ", "index.html">>, <<"error.html">>, <<"l.css">>>>,
     <<Empty, <<"error.html">>, Empty>>}

\* a request as it reaches the middleware
Request(method, path, user, webmode, ifs, swiftcache, meta) ==
    Env(method, path, Empty, user, webmode, ifs, swiftcache, <<"tx">>, <<"client">>, meta)

\* anonymous GETs, and each other kind of request varied from there: without
\* memcache in the pipeline, conditional, HEAD, authenticated without and
\* with X-Web-Mode, writes and DELETE
Requests ==
    {Request("GET", p, FALSE, Empty, FALSE, sc, NoMeta) : p \in Paths, sc \in BOOLEAN}
    \cup {Request("GET", p, FALSE, Empty, TRUE, TRUE, NoMeta) : p \in Paths}
    \cup {Request("HEAD", p, FALSE, Empty, FALSE, TRUE, NoMeta) : p \in Paths}
    \cup {Request("GET", p, TRUE, w, FALSE, TRUE, NoMeta) :
            p \in Paths, w \in {Empty, <<"true">>, <<"no">>}}
    \cup {Request(m, p, TRUE, Empty, FALSE, sc, NoMeta) :
            m \in {"PUT", "POST"}, p \in Paths, sc \in BOOLEAN}
    \cup {Request("POST", Root(<<"c1">>), TRUE, Empty, FALSE, TRUE, meta) :
            meta \in MetaChoices}
    \cup {Request("DELETE", p, TRUE, Empty, FALSE, TRUE, NoMeta) : p \in Paths}

\* the requests of the specification with an unchanging cluster: reads of one container
StableRequests ==
    {Request("GET", p, FALSE, Empty, ifs, TRUE, NoMeta) :
        p \in StaticPaths, ifs \in BOOLEAN}

\* the requests of the specification with interleaved requests
ConcRequests ==
    {Request("GET", p, FALSE, Empty, FALSE, TRUE, NoMeta) :
        p \in {Root(c) \o <<"/", "dir">> : c \in Containers}}
    \cup {Request("POST", Root(<<"c1">>), TRUE, Empty, FALSE, TRUE, meta) :
            meta \in MetaChoices}

\* is this the environment of a request for the container itself?
IsContainerRoot(env) ==
    \E sp \in {split_path(env.PATH_INFO)} :
        sp.ok /\ sp.container \in Containers /\ Falsy(sp.obj)

\* the key of an answer: the listing and the limit=1 probe of one prefix read
\* the same objects
AnswerKey(env) ==
    <<env.PATH_INFO,
      IF IsListingQuery(env.QUERY_STRING)
      THEN <<"prefix=">> \o QueryPrefix(env.QUERY_STRING) ELSE Empty>>

\* what the cluster may answer: a status, and for a listing whether the JSON
\* array has entries.  304 answers a conditional request only.  An unchanging
\* cluster (mode "stable") repeats the answer it gave to the same question,
\* but for the 304 that depends on the validators the request carries.
Answers(env) ==
    IF mode = "stable" /\ AnswerKey(env) \in DOMAIN backend.memo
    THEN {backend.memo[AnswerKey(env)]}
         \cup (IF env.HTTP_IF /\ backend.memo[AnswerKey(env)] = [status |-> 200, items |-> FALSE]
               THEN {[status |-> 304, items |-> FALSE]} ELSE {})
    ELSE {[status |-> s, items |-> i] :
            s \in {200, 403, 404} \cup (IF env.HTTP_IF THEN {304} ELSE {}),
            i \in BOOLEAN}
         \ {a \in [status : {200, 304, 403, 404}, items : BOOLEAN] :
              a.items /\ ~(a.status = 200 /\ IsListingQuery(env.QUERY_STRING))}

\* the response to env when the cluster answers a
BackendResponse(env, a) ==
    LET meta == IF IsContainerRoot(env) /\ a.status = 200
                THEN backend.meta[split_path(env.PATH_INFO).container]
                ELSE NoMeta
    IN  [status |-> a.status,
         headers |-> Headers("backend", env.PATH_INFO, env.QUERY_STRING, meta, Empty, Empty),
         body |-> Body("backend", env.PATH_INFO, env.QUERY_STRING, a.items)]

\* a successful PUT/POST of a container stores its metadata
Stores(env, a) ==
    /\ env.REQUEST_METHOD \in {"PUT", "POST"}
    /\ IsContainerRoot(env)
    /\ a.status = 200

\* the cluster after answering a to env: a successful PUT/POST of a container
\* stores its metadata; an unchanging cluster remembers its answer
BackendAfter(env, a) ==
    [meta |-> IF Stores(env, a)
              THEN [backend.meta EXCEPT ![split_path(env.PATH_INFO).container] =
                        env.X_CONTAINER_META]
              ELSE backend.meta,
     memo |-> IF mode = "stable"
              THEN [k \in DOMAIN backend.memo \cup {AnswerKey(env)} |->
                        IF k # AnswerKey(env) THEN backend.memo[k]
                        ELSE IF a.status = 304 THEN [status |-> 200, items |-> FALSE]
                        ELSE a]
              ELSE backend.memo]

(***************************************************************************)
(* State                                                                   *)
(***************************************************************************)
Keys == {MemcacheKey(<<"v1">>, <<"a">>, c) : c \in Containers}

NoEntry == << >>

\* int(conf.get('cache_timeout', 300)) of the default configuration
CacheTimeout == 300

\* StaticWeb.__init__; w names the request that wrote each group of attributes last
InitSelf ==
    [cache_timeout |-> CacheTimeout, version |-> None, account |-> None, container |-> None, obj |-> None,
     status |-> 0, headers |-> NoHeaders, exc_info |-> None,
     index |-> None, error |-> None, css |-> None,
     w |-> [path |-> "init", resp |-> "init", info |-> "init"]]

\* the response handed to _error_response
Failure(status, headers, body) == [status |-> status, headers |-> headers, body |-> body]

NoFailure == Failure(0, NoHeaders, NoBody)

\* a request slot: env is the request, pc the pending I/O call, pend its
\* environment; handler, key, setval, prefix, response and save_* are the
\* locals alive across an I/O call; sent lists the calls made to self.app;
\* started, status, headers are the client's start_response calls and ret the
\* value returned to the WSGI server.  History of the request: ops (its
\* memcache calls, each with the number of calls of self.app before it), wrote (the
\* groups of attributes it assigned), foreign (it read another request's
\* value), afterInval and hit (its memcache get followed a delete, found an
\* entry), resolved (what _get_container_info gave it), failure (what
\* _error_response was given), errstatus (the status of the error page),
\* replaced (the config the container had when the cluster stored its write)
IdleReq(r) ==
    [id |-> r, env |-> NoEnv, pc |-> "idle", handler |-> "", pend |-> NoEnv,
     key |-> None, setval |-> NoMeta, prefix |-> None, response |-> NoBody,
     save_status |-> 0, save_headers |-> NoHeaders,
     sent |-> << >>, started |-> 0, status |-> 0, headers |-> NoHeaders,
     ret |-> NoBody, ops |-> << >>, wrote |-> {}, foreign |-> FALSE, afterInval |-> "no",
     hit |-> FALSE, resolved |-> NoEntry, failure |-> NoFailure, errstatus |-> 0,
     replaced |-> NoEntry]

\* the three header values as _get_container_info keeps them
Stripped(meta) == <<Strip(meta[1]), Strip(meta[2]), Strip(meta[3])>>

\* the question whether c1 has objects under dir/
DirListingKey == <<Root(<<"c1">>), <<"prefix=", "dir", "/">>>>

\* no answer given yet
NoMemo == [k \in {} |-> 0]

\* what an unchanging cluster holds under dir/ is fixed from the start
DirListings ==
    {[k \in {DirListingKey} |-> a] :
        a \in {[status |-> 200, items |-> TRUE], [status |-> 200, items |-> FALSE],
               [status |-> 404, items |-> FALSE]}}

\* nothing to render, no request in the account quota filter
NoListing == [pc |-> "none", entries |-> << >>, prefix |-> None, rows |-> << >>]

NoQuota == [pc |-> "none"]

\* a worker starts with memcache, which the proxies share, holding nothing or
\* what another worker cached for c1
InitCommon(memos) ==
    /\ self = InitSelf
    /\ backend \in {[meta |-> m, memo |-> memo] :
                      m \in {f \in [Containers -> MetaChoices] : f[<<"c2">>] = NoMeta},
                      memo \in memos}
    /\ cache \in {[k \in Keys |-> IF k = MemcacheKey(<<"v1">>, <<"a">>, <<"c1">>) THEN e ELSE NoEntry] :
                    e \in {NoEntry, Stripped(backend.meta[<<"c1">>])}}
    /\ req = [r \in Reqs |-> IdleReq(r)]
    /\ nreq = 0
    /\ invalidated = {}
    /\ table = NoListing
    /\ quota = NoQuota

Init == InitCommon({NoMemo}) /\ mode = "seq"

InitStable == InitCommon(DirListings) /\ mode = "stable"

InitConc == InitCommon({NoMemo}) /\ mode = "conc"

(***************************************************************************)
(* The code between two I/O calls.  Each operator takes the instance s and *)
(* the request q and gives both back.                                      *)
(***************************************************************************)
\* q reads attributes of the groups gs: a value it wrote itself and that
\* another request has overwritten since is a foreign value
Reading(s, q, gs) ==
    [q EXCEPT !.foreign = @ \/ \E g \in gs : g \in q.wrote /\ s.w[g] # q.id]

\* the locals die when the handler returns
Return(q) ==
    [q EXCEPT !.pc = "done", !.handler = "", !.pend = NoEnv, !.key = None,
              !.setval = NoMeta, !.prefix = None, !.response = NoBody,
              !.save_status = 0, !.save_headers = NoHeaders]

\* start_response(status, headers, exc_info); return body
Respond(q, status, headers, body) ==
    [Return(q) EXCEPT !.started = @ + 1, !.status = status, !.headers = headers,
                      !.ret = body]

\* self._start_response(status, headers)
start_response_hook(s, q, status, headers) ==
    [s EXCEPT !.status = status, !.headers = headers, !.exc_info = None,
              !.w.resp = q.id]

\* HTTPMovedPermanently(location=location)(env, start_response)
HTTPMovedPermanently(q, location) ==
    Respond(q, 301,
            Headers("HTTPMovedPermanently", Empty, Empty, NoMeta, location, Empty),
            Body("HTTPMovedPermanently", Empty, Empty, FALSE))

\* _error_response, up to its sub-request
error_response(s, q0, response) ==
    LET q == [Reading(s, q0, {"info", "resp"}) EXCEPT
                !.failure = Failure(s.status, s.headers, response)]
    IN  IF Falsy(s.error)
        THEN [self |-> s, req |-> Respond(q, s.status, s.headers, response)]
        ELSE [self |-> s,
              req |-> [Reading(s, q, {"path"}) EXCEPT
                         !.pc = "error_page",
                         !.save_status = s.status,
                         !.save_headers = s.headers,
                         !.response = response,
                         !.pend = [strip_ifs(q.env) EXCEPT
                                     !.PATH_INFO =
                                         ContainerPath(s.version, s.account, s.container)
                                         \o Slash \o StatusStr(s.status) \o s.error,
                                     !.REQUEST_METHOD = "GET"]]]

\* resp = HTTPNotFound()(env, self._start_response);
\* return self._error_response(resp, env, start_response)
not_found(s, q) ==
    error_response(
        start_response_hook(s, q, 404,
            Headers("HTTPNotFound", Empty, Empty, NoMeta, Empty, Empty)),
        [q EXCEPT !.wrote = @ \cup {"resp"}],
        Body("HTTPNotFound", Empty, Empty, FALSE))

\* _listing, up to its sub-request
listing(s, q, prefix) ==
    [self |-> s,
     req |-> [Reading(s, q, {"path"}) EXCEPT
                !.pc = "listing",
                !.prefix = prefix,
                !.pend = [strip_ifs(q.env) EXCEPT
                            !.REQUEST_METHOD = "GET",
                            !.PATH_INFO = ContainerPath(s.version, s.account, s.container),
                            !.QUERY_STRING = ListingQuery(prefix)]]]

\* ProbeEnv made of a copy of the request's environment
ProbeEnv_copies_env(s, env) ==
    [env EXCEPT !.REQUEST_METHOD = "HEAD",
                !.PATH_INFO = ContainerPath(s.version, s.account, s.container),
                !.QUERY_STRING = Empty,
                !.HTTP_USER_AGENT = <<"StaticWeb">>]

\* the environment of the HEAD probe of _get_container_info
ProbeEnv(s, env) ==
    Env("HEAD", ContainerPath(s.version, s.account, s.container), Empty, FALSE,
        Empty, FALSE, env.swift_cache, env.HTTP_X_CF_TRANS_ID, <<"StaticWeb">>, NoMeta)

\* _get_container_info, up to memcache_client.get or to the HEAD probe
get_container_info(s, q0) ==
    LET q == [Reading(s, q0, {"path"}) EXCEPT !.wrote = @ \cup {"info"}]
        s1 == [s EXCEPT !.index = None, !.error = None, !.css = None,
                        !.w.info = q.id]
    IN  IF q.env.swift_cache
        THEN [self |-> s1,
              req |-> [q EXCEPT !.pc = "info_get",
                                !.key = MemcacheKey(s.version, s.account, s.container)]]
        ELSE [self |-> s1,
              req |-> [q EXCEPT !.pc = "info_head", !.pend = ProbeEnv(s, q.env)]]

\* forward sending a HEAD
forward_as_head(s, q) ==
    [self |-> s,
     req |-> [q EXCEPT !.pc = "forward", !.pend = [q.env EXCEPT !.REQUEST_METHOD = "HEAD"]]]

\* the original request goes to self.app with the client's start_response
forward(s, q) == [self |-> s, req |-> [q EXCEPT !.pc = "forward", !.pend = q.env]]

\* container_after_info without the test of self._index
container_after_info_always_web(s, q0) ==
    LET q == Reading(s, q0, {"info"})
        index == IF Falsy(s.index) THEN <<"index.html">> ELSE s.index
    IN  IF NoTrailingSlash(q.env.PATH_INFO)
        THEN [self |-> s, req |-> HTTPMovedPermanently(q, q.env.PATH_INFO \o Slash)]
        ELSE [self |-> s,
              req |-> [q EXCEPT !.pc = "container_index",
                                !.pend = [q.env EXCEPT !.PATH_INFO = @ \o index]]]

\* container_after_info redirecting to the path it was asked for
container_after_info_same_location(s, q0) ==
    LET q == Reading(s, q0, {"info"})
    IN  IF Falsy(s.index)
        THEN forward(s, q)
        ELSE IF NoTrailingSlash(q.env.PATH_INFO)
        THEN [self |-> s, req |-> HTTPMovedPermanently(q, q.env.PATH_INFO)]
        ELSE [self |-> s,
              req |-> [q EXCEPT !.pc = "container_index",
                                !.pend = [q.env EXCEPT !.PATH_INFO = @ \o s.index]]]

\* _handle_container after _get_container_info, up to the index sub-request
container_after_info(s, q0) ==
    LET q == Reading(s, q0, {"info"})
    IN  IF Falsy(s.index)
        THEN forward(s, q)
        ELSE IF NoTrailingSlash(q.env.PATH_INFO)
        THEN [self |-> s, req |-> HTTPMovedPermanently(q, q.env.PATH_INFO \o Slash)]
        ELSE [self |-> s,
              req |-> [q EXCEPT !.pc = "container_index",
                                !.pend = [q.env EXCEPT !.PATH_INFO = @ \o s.index]]]

\* object_after_info going on to the listing when there is no index
object_after_info_lists(s, q0) ==
    LET q == Reading(s, q0, {"info"})
    IN  IF Falsy(s.index)
        THEN listing(s, q, s.obj)
        ELSE [self |-> s,
              req |-> [q EXCEPT
                         !.pc = "object_index",
                         !.pend = [q.env EXCEPT !.PATH_INFO =
                                     (IF NoTrailingSlash(@) THEN @ \o Slash ELSE @)
                                     \o s.index]]]

\* _handle_object after _get_container_info, up to the index sub-request
object_after_info(s, q0) ==
    LET q == Reading(s, q0, {"info"})
    IN  IF Falsy(s.index)
        THEN forward(s, q)
        ELSE [self |-> s,
              req |-> [q EXCEPT
                         !.pc = "object_index",
                         !.pend = [q.env EXCEPT !.PATH_INFO =
                                     (IF NoTrailingSlash(@) THEN @ \o Slash ELSE @)
                                     \o s.index]]]

after_info(s, q) ==
    IF q.handler = "container" THEN container_after_info(s, q)
    ELSE object_after_info(s, q)

\* object_after_literal taking only 2xx for the object being there
object_after_literal_only_2xx(s, q0, resp) ==
    LET q == Reading(s, q0, {"resp"})
    IN  IF s.status \div 100 = 2
        THEN [self |-> s, req |-> Respond(q, s.status, s.headers, resp)]
        ELSE IF s.status # 404
        THEN error_response(s, q, resp)
        ELSE get_container_info(s, q)

\* _handle_object after the sub-request for the object itself
object_after_literal(s, q0, resp) ==
    LET q == Reading(s, q0, {"resp"})
    IN  IF s.status \div 100 \in {2, 3}
        THEN [self |-> s, req |-> Respond(q, s.status, s.headers, resp)]
        ELSE IF s.status # 404
        THEN error_response(s, q, resp)
        ELSE get_container_info(s, q)

\* _handle_container after the index sub-request
container_after_index(s, q0, resp) ==
    LET q == Reading(s, q0, {"resp"})
    IN  IF s.status = 404
        THEN listing(s, q, None)
        ELSE IF s.status \div 100 \notin {2, 3}
        THEN error_response(s, q, resp)
        ELSE [self |-> s, req |-> Respond(q, s.status, s.headers, resp)]

\* object_after_index redirecting to the path it was asked for
object_after_index_same_location(s, q0, resp) ==
    LET q == Reading(s, q0, {"resp"})
    IN  IF s.status \div 100 \in {2, 3}
        THEN IF NoTrailingSlash(q.env.PATH_INFO)
             THEN [self |-> s, req |-> HTTPMovedPermanently(q, q.env.PATH_INFO)]
             ELSE [self |-> s, req |-> Respond(q, s.status, s.headers, resp)]
        ELSE IF s.status = 404
        THEN IF NoTrailingSlash(q.env.PATH_INFO)
             THEN [self |-> s,
                   req |-> [Reading(s, q, {"path"}) EXCEPT
                              !.pc = "probe",
                              !.pend = [strip_ifs(q.env) EXCEPT
                                          !.REQUEST_METHOD = "GET",
                                          !.PATH_INFO =
                                              ContainerPath(s.version, s.account, s.container),
                                          !.QUERY_STRING = ProbeQuery(s.obj)]]]
             ELSE listing(s, Reading(s, q, {"path"}), s.obj)
        ELSE [self |-> s, req |-> [Return(q) EXCEPT !.ret = Body("None", Empty, Empty, FALSE)]]

\* _handle_object after the index sub-request; with a status that is neither
\* 2xx, 3xx nor 404 the method ends without a return statement
object_after_index(s, q0, resp) ==
    LET q == Reading(s, q0, {"resp"})
    IN  IF s.status \div 100 \in {2, 3}
        THEN IF NoTrailingSlash(q.env.PATH_INFO)
             THEN [self |-> s, req |-> HTTPMovedPermanently(q, q.env.PATH_INFO \o Slash)]
             ELSE [self |-> s, req |-> Respond(q, s.status, s.headers, resp)]
        ELSE IF s.status = 404
        THEN IF NoTrailingSlash(q.env.PATH_INFO)
             THEN [self |-> s,
                   req |-> [Reading(s, q, {"path"}) EXCEPT
                              !.pc = "probe",
                              !.pend = [strip_ifs(q.env) EXCEPT
                                          !.REQUEST_METHOD = "GET",
                                          !.PATH_INFO =
                                              ContainerPath(s.version, s.account, s.container),
                                          !.QUERY_STRING = ProbeQuery(s.obj)]]]
             ELSE listing(s, Reading(s, q, {"path"}), s.obj)
        ELSE [self |-> s, req |-> [Return(q) EXCEPT !.ret = Body("None", Empty, Empty, FALSE)]]

\* object_after_probe without the test of the JSON array
object_after_probe_any_listing(s, q0, resp) ==
    LET q == Reading(s, q0, {"resp"})
    IN  IF s.status \div 100 # 2
        THEN not_found(s, q)
        ELSE [self |-> s, req |-> HTTPMovedPermanently(q, q.env.PATH_INFO \o Slash)]

\* _handle_object after the limit=1 listing probe
object_after_probe(s, q0, resp) ==
    LET q == Reading(s, q0, {"resp"})
    IN  IF s.status \div 100 # 2 \/ ~resp.items
        THEN not_found(s, q)
        ELSE [self |-> s, req |-> HTTPMovedPermanently(q, q.env.PATH_INFO \o Slash)]

\* listing_after rendering an empty listing too
listing_after_empty_ok(s, q0, resp) ==
    LET q == Reading(s, q0, {"resp"})
    IN  IF s.status \div 100 # 2
        THEN error_response(s, q, resp)
        ELSE [self |-> s,
              req |-> Respond(Reading(s, q, {"info"}), 200,
                         Headers("Response", Empty, Empty, NoMeta, Empty, <<"text/html">>),
                         Body("listing", q.env.PATH_INFO, q.pend.QUERY_STRING, TRUE))]

\* _listing after its sub-request; the HTML body is known by the path in its
\* title and the query whose entries it renders
listing_after(s, q0, resp) ==
    LET q == Reading(s, q0, {"resp"})
    IN  IF s.status \div 100 # 2
        THEN error_response(s, q, resp)
        ELSE IF ~resp.items
        THEN not_found(s, q)
        ELSE [self |-> s,
              req |-> Respond(Reading(s, q, {"info"}), 200,
                         Headers("Response", Empty, Empty, NoMeta, Empty, <<"text/html">>),
                         Body("listing", q.env.PATH_INFO, q.pend.QUERY_STRING, TRUE))]

\* error_response_after sending the status of the error page
error_response_after_page_status(s, q0, resp) ==
    LET q == [Reading(s, q0, {"resp"}) EXCEPT !.errstatus = s.status]
    IN  IF s.status \div 100 = 2
        THEN [self |-> s, req |-> Respond(q, s.status, s.headers, resp)]
        ELSE [self |-> s, req |-> Respond(q, q.save_status, q.save_headers, q.response)]

\* error_response_after substituting the failure of the error page again
error_response_after_again(s, q0, resp) ==
    LET q == [Reading(s, q0, {"resp"}) EXCEPT !.errstatus = s.status]
    IN  IF s.status \div 100 = 2
        THEN [self |-> s, req |-> Respond(q, q.save_status, s.headers, resp)]
        ELSE error_response(s, q, resp)

\* _error_response after the sub-request for the error page
error_response_after(s, q0, resp) ==
    LET q == [Reading(s, q0, {"resp"}) EXCEPT !.errstatus = s.status]
    IN  IF s.status \div 100 = 2
        THEN [self |-> s, req |-> Respond(q, q.save_status, s.headers, resp)]
        ELSE [self |-> s, req |-> Respond(q, q.save_status, q.save_headers, q.response)]

\* call deleting the cache entry of the container of every write
call_deletes_always(s, q) ==
    LET env == q.env
        sp == split_path(env.PATH_INFO)
        s1 == [s EXCEPT !.version = sp.version, !.account = sp.account,
                        !.container = sp.container, !.obj = sp.obj,
                        !.w.path = q.id]
        q1 == [q EXCEPT !.wrote = @ \cup {"path"}]
    IN  IF ~sp.ok
        THEN forward(s, q)
        ELSE IF env.swift_cache /\ env.REQUEST_METHOD \in {"PUT", "POST"}
        THEN IF ~Falsy(s1.container)
             THEN [self |-> s1,
                   req |-> [q1 EXCEPT !.pc = "delete",
                              !.key = MemcacheKey(s1.version, s1.account, s1.container)]]
             ELSE forward(s1, q1)
        ELSE IF \/ env.REQUEST_METHOD \notin {"HEAD", "GET"}
                \/ (env.REMOTE_USER /\ env.HTTP_X_WEB_MODE \notin TRUE_VALUES)
        THEN forward(s1, q1)
        ELSE IF ~Falsy(s1.obj)
        THEN [self |-> s1,
              req |-> [q1 EXCEPT !.handler = "object", !.pc = "object_literal",
                                 !.pend = q.env]]
        ELSE IF ~Falsy(s1.container)
        THEN get_container_info(s1, [q1 EXCEPT !.handler = "container"])
        ELSE forward(s1, q1)

\* call taking no notice of X-Web-Mode
call_ignores_web_mode(s, q) ==
    LET env == q.env
        sp == split_path(env.PATH_INFO)
        s1 == [s EXCEPT !.version = sp.version, !.account = sp.account,
                        !.container = sp.container, !.obj = sp.obj,
                        !.w.path = q.id]
        q1 == [q EXCEPT !.wrote = @ \cup {"path"}]
    IN  IF ~sp.ok
        THEN forward(s, q)
        ELSE IF env.swift_cache /\ env.REQUEST_METHOD \in {"PUT", "POST"}
        THEN IF Falsy(s1.obj) /\ ~Falsy(s1.container)
             THEN [self |-> s1,
                   req |-> [q1 EXCEPT !.pc = "delete",
                              !.key = MemcacheKey(s1.version, s1.account, s1.container)]]
             ELSE forward(s1, q1)
        ELSE IF env.REQUEST_METHOD \notin {"HEAD", "GET"} \/ env.REMOTE_USER
        THEN forward(s1, q1)
        ELSE IF ~Falsy(s1.obj)
        THEN [self |-> s1,
              req |-> [q1 EXCEPT !.handler = "object", !.pc = "object_literal",
                                 !.pend = q.env]]
        ELSE IF ~Falsy(s1.container)
        THEN get_container_info(s1, [q1 EXCEPT !.handler = "container"])
        ELSE forward(s1, q1)

\* StaticWeb.__call__ up to its first I/O call
call(s, q) ==
    LET env == q.env
        sp == split_path(env.PATH_INFO)
        s1 == [s EXCEPT !.version = sp.version, !.account = sp.account,
                        !.container = sp.container, !.obj = sp.obj,
                        !.w.path = q.id]
        q1 == [q EXCEPT !.wrote = @ \cup {"path"}]
    IN  IF ~sp.ok
        THEN forward(s, q)
        ELSE IF env.swift_cache /\ env.REQUEST_METHOD \in {"PUT", "POST"}
        THEN IF Falsy(s1.obj) /\ ~Falsy(s1.container)
             THEN [self |-> s1,
                   req |-> [q1 EXCEPT !.pc = "delete",
                              !.key = MemcacheKey(s1.version, s1.account, s1.container)]]
             ELSE forward(s1, q1)
        ELSE IF \/ env.REQUEST_METHOD \notin {"HEAD", "GET"}
                \/ (env.REMOTE_USER /\ env.HTTP_X_WEB_MODE \notin TRUE_VALUES)
        THEN forward(s1, q1)
        ELSE IF ~Falsy(s1.obj)
        THEN [self |-> s1,
              req |-> [q1 EXCEPT !.handler = "object", !.pc = "object_literal",
                                 !.pend = q.env]]
        ELSE IF ~Falsy(s1.container)
        THEN get_container_info(s1, [q1 EXCEPT !.handler = "container"])
        ELSE forward(s1, q1)

(***************************************************************************)
(* Actions                                                                 *)
(*                                                                         *)
(* The intermediate values of an action (the response, the request after   *)
(* the call, the outcome of the code that follows) are bound by \E over a  *)
(* one-element set, so that each is evaluated once, under ENABLED too.     *)
(***************************************************************************)
\* a call of self.app: where it was made, with what, to which start_response
\* ("client", "self" for self._start_response, "webob" for Request.get_response),
\* and what came back
Sent(role, env, hook, a) ==
    [role |-> role, env |-> env, hook |-> hook, status |-> a.status, items |-> a.items]

\* the requests that may arrive
Arrivals ==
    IF mode = "stable" THEN StableRequests
    ELSE IF mode = "conc" THEN ConcRequests
    ELSE Requests

\* a request arrives and __call__ runs up to its first I/O call; the worker
\* takes one request at a time unless mode = "conc"
Call(r) ==
    /\ req[r].pc \in {"idle", "done"}
    /\ nreq < MaxRequests
    /\ mode = "conc" \/ r = "r1"
    /\ \E env \in Arrivals :
         \E out \in {call(self, [IdleReq(r) EXCEPT !.env = env])} :
             /\ self' = out.self
             /\ req' = [req EXCEPT ![r] = out.req]
    /\ nreq' = nreq + 1
    /\ UNCHANGED <<cache, backend, mode, invalidated, table, quota>>

\* self.app(env, start_response): the response goes to the client as it is
Forward(r) ==
    /\ req[r].pc = "forward"
    /\ \E a \in Answers(req[r].pend) :
         \E resp \in {BackendResponse(req[r].pend, a)},
            q \in {[req[r] EXCEPT
                     !.sent = Append(@, Sent("forward", req[r].pend, "client", a)),
                     !.replaced = IF Stores(req[r].pend, a)
                                  THEN Stripped(backend.meta[split_path(req[r].pend.PATH_INFO).container])
                                  ELSE NoEntry]} :
             /\ req' = [req EXCEPT ![r] = Respond(q, resp.status, resp.headers, resp.body)]
             /\ backend' = BackendAfter(req[r].pend, a)
    /\ UNCHANGED <<self, cache, nreq, mode, invalidated, table, quota>>

\* a sub-request self.app(tmp_env, self._start_response) of r answered a: the
\* response, the instance after self._start_response, the request
SubResponse(r, a) == BackendResponse(req[r].pend, a)

SubSelf(r, a) ==
    start_response_hook(self, req[r], SubResponse(r, a).status, SubResponse(r, a).headers)

SubReq(r, a) ==
    [req[r] EXCEPT !.sent = Append(@, Sent(req[r].pc, req[r].pend, "self", a)),
                   !.wrote = @ \cup {"resp"}]

\* the state after the code that followed the sub-request gave out
SubRequest(r, a, out) ==
    /\ self' = out.self
    /\ req' = [req EXCEPT ![r] = out.req]
    /\ backend' = BackendAfter(req[r].pend, a)
    /\ UNCHANGED <<cache, nreq, mode, invalidated, table, quota>>

ObjectLiteral(r) ==
    /\ req[r].pc = "object_literal"
    /\ \E a \in Answers(req[r].pend) :
         \E s \in {SubSelf(r, a)}, q \in {SubReq(r, a)}, body \in {SubResponse(r, a).body} :
           \E out \in {object_after_literal(s, q, body)} : SubRequest(r, a, out)

ContainerIndex(r) ==
    /\ req[r].pc = "container_index"
    /\ \E a \in Answers(req[r].pend) :
         \E s \in {SubSelf(r, a)}, q \in {SubReq(r, a)}, body \in {SubResponse(r, a).body} :
           \E out \in {container_after_index(s, q, body)} : SubRequest(r, a, out)

ObjectIndex(r) ==
    /\ req[r].pc = "object_index"
    /\ \E a \in Answers(req[r].pend) :
         \E s \in {SubSelf(r, a)}, q \in {SubReq(r, a)}, body \in {SubResponse(r, a).body} :
           \E out \in {object_after_index(s, q, body)} : SubRequest(r, a, out)

Probe(r) ==
    /\ req[r].pc = "probe"
    /\ \E a \in Answers(req[r].pend) :
         \E s \in {SubSelf(r, a)}, q \in {SubReq(r, a)}, body \in {SubResponse(r, a).body} :
           \E out \in {object_after_probe(s, q, body)} : SubRequest(r, a, out)

Listing(r) ==
    /\ req[r].pc = "listing"
    /\ \E a \in Answers(req[r].pend) :
         \E s \in {SubSelf(r, a)}, q \in {SubReq(r, a)}, body \in {SubResponse(r, a).body} :
           \E out \in {listing_after(s, q, body)} : SubRequest(r, a, out)

ErrorPage(r) ==
    /\ req[r].pc = "error_page"
    /\ \E a \in Answers(req[r].pend) :
         \E s \in {SubSelf(r, a)}, q \in {SubReq(r, a)}, body \in {SubResponse(r, a).body} :
           \E out \in {error_response_after(s, q, body)} : SubRequest(r, a, out)

\* q after a call of memcache_client
CacheOp(q, op) ==
    [q EXCEPT !.ops = Append(@, [op |-> op, key |-> q.key, at |-> Len(q.sent),
                                 timeout |-> IF op = "set" THEN self.cache_timeout ELSE 0])]

\* CacheDelete leaving the entry in memcache
CacheDelete_keeps(r) ==
    /\ req[r].pc = "delete"
    /\ invalidated' = {i \in invalidated : i[1] # req[r].key}
                      \cup {<<req[r].key, IF cache[req[r].key] # NoEntry THEN "entry" ELSE "empty">>}
    /\ req' = [req EXCEPT ![r] = forward(self, CacheOp(req[r], "delete")).req]
    /\ UNCHANGED <<self, cache, backend, nreq, mode, table, quota>>

\* memcache_client.delete(memcache_key), then the write goes to self.app
CacheDelete(r) ==
    /\ req[r].pc = "delete"
    /\ cache' = [cache EXCEPT ![req[r].key] = NoEntry]
    /\ invalidated' = {i \in invalidated : i[1] # req[r].key}
                      \cup {<<req[r].key, IF cache[req[r].key] # NoEntry THEN "entry" ELSE "empty">>}
    /\ \E q \in {CacheOp(req[r], "delete")} :
         req' = [req EXCEPT ![r] = forward(self, q).req]
    /\ UNCHANGED <<self, backend, nreq, mode, table, quota>>

\* memcache_client.get(memcache_key) and the code after it
CacheGet(r) ==
    /\ req[r].pc = "info_get"
    /\ \E q \in {[CacheOp(req[r], "get") EXCEPT !.afterInval =
                    IF \E i \in invalidated : i[1] = req[r].key
                    THEN (CHOOSE i \in invalidated : i[1] = req[r].key)[2]
                    ELSE "no"]} :
       \E cached_data \in {cache[q.key]} :
       \E out \in {IF cached_data # NoEntry
                  THEN after_info([self EXCEPT !.index = cached_data[1],
                                               !.error = cached_data[2],
                                               !.css = cached_data[3],
                                               !.w.info = r],
                                  [q EXCEPT !.hit = TRUE, !.resolved = cached_data])
                  ELSE [self |-> self,
                        req |-> [Reading(self, q, {"path"}) EXCEPT
                                   !.pc = "info_head", !.pend = ProbeEnv(self, q.env)]]} :
           /\ self' = out.self
           /\ req' = [req EXCEPT ![r] = out.req]
    /\ invalidated' = {i \in invalidated : i[1] # req[r].key}
    /\ UNCHANGED <<cache, backend, nreq, mode, table, quota>>

\* InfoHead answering the client with a failure of the probe
InfoHead_failure_surfaces(r) ==
    /\ req[r].pc = "info_head"
    /\ \E a \in Answers(req[r].pend) :
         LET resp == BackendResponse(req[r].pend, a)
             q == [req[r] EXCEPT
                     !.sent = Append(@, Sent("info_head", req[r].pend, "webob", a)),
                     !.resolved = IF resp.status \div 100 = 2
                                  THEN Stripped(<<resp.headers.index, resp.headers.error,
                                                  resp.headers.css>>)
                                  ELSE <<None, None, None>>]
             s == [self EXCEPT !.index = Strip(resp.headers.index),
                               !.css = Strip(resp.headers.css),
                               !.error = Strip(resp.headers.error),
                               !.w.info = r]
             out == IF resp.status \div 100 = 2
                    THEN IF q.env.swift_cache
                         THEN [self |-> s,
                               req |-> [q EXCEPT !.pc = "info_set",
                                          !.setval = <<s.index, s.error, s.css>>]]
                         ELSE after_info(s, q)
                    ELSE [self |-> self,
                          req |-> Respond(q, resp.status, resp.headers, resp.body)]
         IN  /\ self' = out.self
             /\ req' = [req EXCEPT ![r] = out.req]
             /\ backend' = BackendAfter(req[r].pend, a)
    /\ UNCHANGED <<cache, nreq, mode, invalidated, table, quota>>

\* InfoHead caching the header values as they came
InfoHead_caches_untrimmed(r) ==
    /\ req[r].pc = "info_head"
    /\ \E a \in Answers(req[r].pend) :
         LET resp == BackendResponse(req[r].pend, a)
             q == [req[r] EXCEPT
                     !.sent = Append(@, Sent("info_head", req[r].pend, "webob", a)),
                     !.resolved = IF resp.status \div 100 = 2
                                  THEN Stripped(<<resp.headers.index, resp.headers.error,
                                                  resp.headers.css>>)
                                  ELSE <<None, None, None>>]
             s == [self EXCEPT !.index = Strip(resp.headers.index),
                               !.css = Strip(resp.headers.css),
                               !.error = Strip(resp.headers.error),
                               !.w.info = r]
             out == IF resp.status \div 100 = 2
                    THEN IF q.env.swift_cache
                         THEN [self |-> s,
                               req |-> [q EXCEPT !.pc = "info_set",
                                          !.setval = <<resp.headers.index, resp.headers.error,
                                                      resp.headers.css>>]]
                         ELSE after_info(s, q)
                    ELSE after_info(self, q)
         IN  /\ self' = out.self
             /\ req' = [req EXCEPT ![r] = out.req]
             /\ backend' = BackendAfter(req[r].pend, a)
    /\ UNCHANGED <<cache, nreq, mode, invalidated, table, quota>>

\* req.get_response(self.app) of the HEAD probe and the code after it
InfoHead(r) ==
    /\ req[r].pc = "info_head"
    /\ \E a \in Answers(req[r].pend) :
       \E resp \in {BackendResponse(req[r].pend, a)} :
       \E q \in {[req[r] EXCEPT
                     !.sent = Append(@, Sent("info_head", req[r].pend, "webob", a)),
                     !.resolved = IF resp.status \div 100 = 2
                                  THEN Stripped(<<resp.headers.index, resp.headers.error,
                                                  resp.headers.css>>)
                                  ELSE <<None, None, None>>]},
          s \in {[self EXCEPT !.index = Strip(resp.headers.index),
                               !.css = Strip(resp.headers.css),
                               !.error = Strip(resp.headers.error),
                               !.w.info = r]} :
       \E out \in {IF resp.status \div 100 = 2
                    THEN IF q.env.swift_cache
                         THEN [self |-> s,
                               req |-> [q EXCEPT !.pc = "info_set",
                                          !.setval = <<s.index, s.error, s.css>>]]
                         ELSE after_info(s, q)
                    ELSE after_info(self, q)} :
             /\ self' = out.self
             /\ req' = [req EXCEPT ![r] = out.req]
             /\ backend' = BackendAfter(req[r].pend, a)
    /\ UNCHANGED <<cache, nreq, mode, invalidated, table, quota>>

\* memcache_client.set(memcache_key, (index, error, listing_css), timeout) and the code after it
CacheSet(r) ==
    /\ req[r].pc = "info_set"
    /\ cache' = [cache EXCEPT ![req[r].key] = req[r].setval]
    /\ \E out \in {after_info(self, CacheOp(req[r], "set"))} :
           /\ self' = out.self
           /\ req' = [req EXCEPT ![r] = out.req]
    /\ UNCHANGED <<backend, nreq, mode, invalidated, table, quota>>

\* the timeout of a cache entry elapses
CacheExpire ==
    /\ \E k \in Keys :
         /\ cache[k] # NoEntry
         /\ cache' = [cache EXCEPT ![k] = NoEntry]
    /\ UNCHANGED <<self, backend, req, nreq, mode, invalidated, table, quota>>

Next ==
    \/ \E r \in Reqs : Call(r)
    \/ \E r \in Reqs : Forward(r)
    \/ \E r \in Reqs : ObjectLiteral(r)
    \/ \E r \in Reqs : ContainerIndex(r)
    \/ \E r \in Reqs : ObjectIndex(r)
    \/ \E r \in Reqs : Probe(r)
    \/ \E r \in Reqs : Listing(r)
    \/ \E r \in Reqs : ErrorPage(r)
    \/ \E r \in Reqs : CacheDelete(r)
    \/ \E r \in Reqs : CacheGet(r)
    \/ \E r \in Reqs : InfoHead(r)
    \/ \E r \in Reqs : CacheSet(r)
    \/ CacheExpire

\* the actions of a worker behind which nothing is written
NextStable ==
    \/ \E r \in Reqs : Call(r)
    \/ \E r \in Reqs : Forward(r)
    \/ \E r \in Reqs : ObjectLiteral(r)
    \/ \E r \in Reqs : ContainerIndex(r)
    \/ \E r \in Reqs : ObjectIndex(r)
    \/ \E r \in Reqs : Probe(r)
    \/ \E r \in Reqs : Listing(r)
    \/ \E r \in Reqs : ErrorPage(r)
    \/ \E r \in Reqs : CacheGet(r)
    \/ \E r \in Reqs : InfoHead(r)
    \/ \E r \in Reqs : CacheSet(r)

\* the actions of the object requests and container writes that interleave;
\* no cache entry times out meanwhile
NextConc ==
    \/ \E r \in Reqs : Call(r)
    \/ \E r \in Reqs : Forward(r)
    \/ \E r \in Reqs : ObjectLiteral(r)
    \/ \E r \in Reqs : ObjectIndex(r)
    \/ \E r \in Reqs : Probe(r)
    \/ \E r \in Reqs : ErrorPage(r)
    \/ \E r \in Reqs : CacheDelete(r)
    \/ \E r \in Reqs : CacheGet(r)
    \/ \E r \in Reqs : InfoHead(r)
    \/ \E r \in Reqs : CacheSet(r)

\* requests handled one at a time, the cluster answering as it likes
Spec == Init /\ [][Next]_vars

\* requests handled one at a time, the cluster's contents never changing
SpecStable == InitStable /\ [][NextStable]_vars

\* requests interleaved at the I/O calls
SpecConc == InitConc /\ [][NextConc]_vars

\* the I/O call that r waits for returns and r runs on to its next one
Step(r) ==
    \/ Forward(r)
    \/ ObjectLiteral(r)
    \/ ContainerIndex(r)
    \/ ObjectIndex(r)
    \/ Probe(r)
    \/ Listing(r)
    \/ ErrorPage(r)
    \/ CacheDelete(r)
    \/ CacheGet(r)
    \/ InfoHead(r)
    \/ CacheSet(r)

\* requests handled one at a time, every call of the cluster and of memcache
\* returning
SpecFair == Init /\ [][Next]_vars /\ \A r \in Reqs : WF_vars(Step(r))

(***************************************************************************)
(* The listing renderer: the part of _listing after json.loads             *)
(***************************************************************************)
\* cgi.escape(s)
Escape(s) ==
    [i \in 1..Len(s) |->
        CASE s[i] = "&" -> "&amp;"
          [] s[i] = "<" -> "&lt;"
          [] s[i] = ">" -> "&gt;"
          [] OTHER -> s[i]]

\* name[len(prefix):] if prefix
StripPrefix(name, prefix) ==
    IF Falsy(prefix) THEN name ELSE SubSeq(name, Len(prefix) + 1, Len(name))

\* a row of the table: its class, the link, the text, and the position in the
\* JSON array of the entry it renders (0 for the parent row)
Row(kind, name, prefix, from) ==
    [kind |-> kind, href |-> Quote(StripPrefix(name, prefix)),
     text |-> Escape(StripPrefix(name, prefix)), from |-> from]

ParentRow == [kind |-> "parent", href |-> <<"..", "/">>, text |-> <<"..", "/">>, from |-> 0]

\* for item in listing: if kind in item: body += row; over the items from i on
RECURSIVE RowsOf(_, _, _, _)
RowsOf(entries, kind, prefix, i) ==
    IF i > Len(entries) THEN << >>
    ELSE (IF entries[i].kind = kind
          THEN <<Row(kind, entries[i].name, prefix, i)>> ELSE << >>)
         \o RowsOf(entries, kind, prefix, i + 1)

\* render with the loop over the names before the loop over the subdirs
render_names_first(entries, prefix) ==
    (IF Falsy(prefix) THEN << >> ELSE <<ParentRow>>)
    \o RowsOf(entries, "name", prefix, 1)
    \o RowsOf(entries, "subdir", prefix, 1)

\* the rows of the table: the parent row if prefix, the loop over the subdirs,
\* the loop over the names
render(entries, prefix) ==
    (IF Falsy(prefix) THEN << >> ELSE <<ParentRow>>)
    \o RowsOf(entries, "subdir", prefix, 1)
    \o RowsOf(entries, "name", prefix, 1)

\* the entries the cluster may list under dir/
Entries ==
    {[kind |-> "subdir", name |-> <<"dir", "/", "sub", "/">>],
     [kind |-> "subdir", name |-> <<"dir", "/", "x&y", "/">>],
     [kind |-> "name", name |-> <<"dir", "/", "a">>],
     [kind |-> "name", name |-> <<"dir", "/", "b c">>]}

\* JSON arrays of at most MaxEntries different entries, in any order
Listings ==
    UNION {{l \in [1..n -> Entries] : \A i, j \in 1..n : i # j => l[i] # l[j]} :
             n \in 0..MaxEntries}

InitRender ==
    /\ self = InitSelf
    /\ backend = [meta |-> [c \in Containers |-> NoMeta], memo |-> NoMemo]
    /\ cache = [k \in Keys |-> NoEntry]
    /\ req = [r \in Reqs |-> IdleReq(r)]
    /\ nreq = 0
    /\ invalidated = {}
    /\ mode = "render"
    /\ quota = NoQuota
    /\ table \in {[pc |-> "loaded", entries |-> l, prefix |-> p, rows |-> << >>] :
                      l \in Listings, p \in {None, <<"dir", "/">>}}

\* the body is built from the parsed listing
Render ==
    /\ table.pc = "loaded"
    /\ table' = [table EXCEPT !.pc = "rendered",
                                  !.rows = render(table.entries, table.prefix)]
    /\ UNCHANGED <<self, cache, backend, req, nreq, mode, invalidated, quota>>

NextRender == Render

\* the renderer alone, on every listing
SpecRender == InitRender /\ [][NextRender]_vars

(***************************************************************************)
(* AccountQuotaMiddleware                                                  *)
(***************************************************************************)
\* Python values that are None, an int or a str
PyNone == [type |-> "NoneType", int |-> 0, str |-> Empty]

PyInt(n) == [type |-> "int", int |-> n, str |-> Empty]

PyStr(s) == [type |-> "str", int |-> 0, str |-> s]

\* bool(v)
Truthy(v) ==
    CASE v.type = "int" -> v.int # 0
      [] v.type = "str" -> v.str # Empty
      [] OTHER -> FALSE

DigitChars == <<"0", "1", "2", "3", "4", "5", "6", "7", "8", "9">>

\* s.isdigit()
isdigit(s) ==
    /\ s # Empty
    /\ \A i \in 1..Len(s) : \E d \in 1..10 : DigitChars[d] = s[i]

\* int(s) of a string of digits
RECURSIVE ParseInt(_)
ParseInt(s) ==
    IF s = Empty THEN 0
    ELSE ParseInt(SubSeq(s, 1, Len(s) - 1)) * 10
         + (CHOOSE d \in 0..9 : DigitChars[d + 1] = s[Len(s)])

\* str(n)
RECURSIVE DigitStr(_)
DigitStr(n) ==
    IF n < 10 THEN <<DigitChars[n + 1]>>
    ELSE DigitStr(n \div 10) \o <<DigitChars[(n % 10) + 1]>>

\* int(v) of an int or of a string of digits
PyToInt(v) == IF v.type = "int" THEN v.int ELSE ParseInt(v.str)

\* v or 0, of None or an int
OrZero(v) == IF Truthy(v) THEN v.int ELSE 0

\* s.lstrip('/')
RECURSIVE LStripSlash(_)
LStripSlash(s) ==
    IF s # Empty /\ Head(s) = "/" THEN LStripSlash(Tail(s)) ELSE s

\* what get_account_info returns: None, or the account's bytes, a number or
\* the value of a header, and in meta its quota-bytes if it has one
NoInfo == [present |-> FALSE, bytes |-> PyNone, quota |-> None]

AccountInfos ==
    {NoInfo}
    \cup {[present |-> TRUE, bytes |-> b, quota |-> q] :
            b \in {PyNone} \cup {PyInt(n) : n \in 0..MaxBytes}
                  \cup {PyStr(DigitStr(n)) : n \in 0..MaxBytes},
            q \in {None} \cup {DigitStr(n) : n \in 0..MaxBytes}}

\* the answers to the HEAD of the copy source: its Content-Length if the
\* response is a success
CopyAnswers == {PyNone} \cup {PyInt(n) : n \in 0..MaxBytes}

\* the requests the filter sees
QuotaRequests ==
    {[pc |-> "call", method |-> m, path |-> p, new_quota |-> nq,
      reseller_request |-> rr, copy_from |-> cf, content_length |-> cl,
      size |-> 0, copy |-> PyNone, info |-> NoInfo, pend |-> Empty,
      sent |-> << >>, status |-> 0] :
        m \in {"GET", "DELETE", "PUT", "POST"},
        p \in {<<"/", "v1">>, <<"/", "v1", "/", "a">>, Root(<<"c1">>),
               Root(<<"c1">>) \o <<"/", "o">>},
        nq \in {None, Empty, <<"2">>, <<"2", "x">>},
        rr \in {"True", "None", "str"},
        cf \in {None, <<"/", "c2", "/", "src">>},
        cl \in {PyNone} \cup {PyInt(n) : n \in 0..MaxBytes}}

\* return self.app: wsgify sends the request down the pipeline
quota_forward(q) == [q EXCEPT !.pc = "forward"]

\* return HTTPBadRequest(), HTTPForbidden(), HTTPRequestEntityTooLarge()
quota_respond(q, status) == [q EXCEPT !.pc = "done", !.status = status]

\* __call__ with the test of the header's truth in place of is not None
quota_call_empty_allowed(q) ==
    LET sp == split_path(q.path)
    IN  IF q.method \notin {"POST", "PUT"} THEN quota_forward(q)
        ELSE IF ~sp.ok THEN quota_forward(q)
        ELSE IF q.reseller_request = "True"
        THEN IF ~Falsy(q.new_quota) /\ ~isdigit(q.new_quota)
             THEN quota_respond(q, 400)
             ELSE quota_forward(q)
        ELSE IF ~Falsy(q.new_quota) THEN quota_respond(q, 403)
        ELSE IF ~Falsy(sp.obj) /\ ~Falsy(q.copy_from)
        THEN [q EXCEPT !.pc = "copy_head",
                       !.pend = Slash \o sp.version \o Slash \o sp.account
                                \o Slash \o LStripSlash(q.copy_from)]
        ELSE [q EXCEPT !.pc = "account_info", !.size = OrZero(q.content_length)]

\* __call__, up to its first call of the pipeline or of get_account_info
quota_call(q) ==
    LET sp == split_path(q.path)
    IN  IF q.method \notin {"POST", "PUT"} THEN quota_forward(q)
        ELSE IF ~sp.ok THEN quota_forward(q)
        ELSE IF q.reseller_request = "True"
        THEN IF ~Falsy(q.new_quota) /\ ~isdigit(q.new_quota)
             THEN quota_respond(q, 400)
             ELSE quota_forward(q)
        ELSE IF q.new_quota # None THEN quota_respond(q, 403)
        ELSE IF ~Falsy(sp.obj) /\ ~Falsy(q.copy_from)
        THEN [q EXCEPT !.pc = "copy_head",
                       !.pend = Slash \o sp.version \o Slash \o sp.account
                                \o Slash \o LStripSlash(q.copy_from)]
        ELSE [q EXCEPT !.pc = "account_info", !.size = OrZero(q.content_length)]

\* __call__ after get_object_size
quota_after_copy(q, size) ==
    [q EXCEPT !.pc = "account_info", !.copy = size, !.size = OrZero(size),
              !.sent = Append(@, [role |-> "copy_head", method |-> "HEAD",
                                  path |-> q.pend])]

\* __call__ after get_account_info
quota_after_info(q0, info) ==
    LET q == [q0 EXCEPT !.info = info]
    IN  IF ~info.present \/ ~Truthy(info.bytes) THEN quota_forward(q)
        ELSE LET new_size == PyToInt(info.bytes) + q.size
                 quota_bytes == IF info.quota = None THEN -1 ELSE ParseInt(info.quota)
             IN  IF 0 <= quota_bytes /\ quota_bytes < new_size
                 THEN quota_respond(q, 413)
                 ELSE quota_forward(q)

InitQuota ==
    /\ self = InitSelf
    /\ backend = [meta |-> [c \in Containers |-> NoMeta], memo |-> NoMemo]
    /\ cache = [k \in Keys |-> NoEntry]
    /\ req = [r \in Reqs |-> IdleReq(r)]
    /\ nreq = 0
    /\ invalidated = {}
    /\ mode = "quota"
    /\ table = NoListing
    /\ quota \in QuotaRequests

\* the request enters the filter
QuotaCall ==
    /\ quota.pc = "call"
    /\ quota' = quota_call(quota)
    /\ UNCHANGED <<self, cache, backend, req, nreq, mode, invalidated, table>>

\* the HEAD of the copy source is answered
QuotaCopyHead ==
    /\ quota.pc = "copy_head"
    /\ \E size \in CopyAnswers : quota' = quota_after_copy(quota, size)
    /\ UNCHANGED <<self, cache, backend, req, nreq, mode, invalidated, table>>

\* get_account_info returns
QuotaAccountInfo ==
    /\ quota.pc = "account_info"
    /\ \E info \in AccountInfos : quota' = quota_after_info(quota, info)
    /\ UNCHANGED <<self, cache, backend, req, nreq, mode, invalidated, table>>

\* the rest of the pipeline answers the request
QuotaForward ==
    /\ quota.pc = "forward"
    /\ \E status \in {201, 404} :
          quota' = [quota EXCEPT
                      !.pc = "done", !.status = status,
                      !.sent = Append(@, [role |-> "request", method |-> quota.method,
                                          path |-> quota.path])]
    /\ UNCHANGED <<self, cache, backend, req, nreq, mode, invalidated, table>>

NextQuota ==
    \/ QuotaCall
    \/ QuotaCopyHead
    \/ QuotaAccountInfo
    \/ QuotaForward

\* the quota filter alone, on every request
SpecQuota == InitQuota /\ [][NextQuota]_vars

(***************************************************************************)
(* Properties                                                              *)
(***************************************************************************)
Done(r) == req[r].pc = "done"

\* the positions in sent of the calls made at a place of the code
Calls(r, role) == {i \in DOMAIN req[r].sent : req[r].sent[i].role = role}

Roles(r) == {req[r].sent[i].role : i \in DOMAIN req[r].sent}

\* a HEAD/GET that static-web handling takes: anonymous, or with X-Web-Mode true
StaticWebRequest(r) ==
    /\ split_path(req[r].env.PATH_INFO).ok
    /\ req[r].env.REQUEST_METHOD \in {"HEAD", "GET"}
    /\ ~(req[r].env.REMOTE_USER /\ req[r].env.HTTP_X_WEB_MODE \notin TRUE_VALUES)

\* ... on a container root: container present, object absent
RootRequest(r) ==
    /\ StaticWebRequest(r)
    /\ ~Falsy(split_path(req[r].env.PATH_INFO).container)
    /\ Falsy(split_path(req[r].env.PATH_INFO).obj)

\* ... on an object path
ObjectRequest(r) ==
    /\ StaticWebRequest(r)
    /\ ~Falsy(split_path(req[r].env.PATH_INFO).obj)

\* the request resolved the container's config, and it has an index / has none
ResolvedIndex(r) == req[r].resolved # NoEntry /\ ~Falsy(req[r].resolved[1])

ResolvedNoIndex(r) == req[r].resolved # NoEntry /\ Falsy(req[r].resolved[1])

\* the client got the cluster's response to call i of r, as it came
ClientGotCall(r, i) ==
    LET c == req[r].sent[i]
    IN  /\ req[r].started = 1
        /\ req[r].status = c.status
        /\ req[r].headers.src = "backend"
        /\ req[r].headers.path = c.env.PATH_INFO
        /\ req[r].headers.qs = c.env.QUERY_STRING
        /\ req[r].ret = Body("backend", c.env.PATH_INFO, c.env.QUERY_STRING, c.items)

\* C1: a HEAD/GET on a container root whose resolved config has no index is
\* forwarded to the cluster once, unchanged, and the cluster's response is
\* returned as it is; beside the metadata probe nothing else is sent
C1_NoIndexForwarded ==
    \A r \in Reqs :
        (Done(r) /\ RootRequest(r) /\ ResolvedNoIndex(r)) =>
            /\ Cardinality(Calls(r, "forward")) = 1
            /\ Roles(r) \subseteq {"forward", "info_head"}
            /\ \A i \in Calls(r, "forward") :
                 /\ req[r].sent[i].env = req[r].env
                 /\ req[r].sent[i].hook = "client"
                 /\ ClientGotCall(r, i)

C1_Witness ==
    \E r \in Reqs :
        /\ Done(r) /\ RootRequest(r) /\ ResolvedNoIndex(r)
        /\ Calls(r, "info_head") # {}
        /\ req[r].status = 200

\* C2: a HEAD/GET on a container root without trailing "/" whose config has an
\* index is answered 301 with Location = path + "/", and no index, listing or
\* error-page sub-request is sent
C2_RootRedirect ==
    \A r \in Reqs :
        (/\ Done(r) /\ RootRequest(r) /\ ResolvedIndex(r)
         /\ NoTrailingSlash(req[r].env.PATH_INFO)) =>
            /\ req[r].started = 1
            /\ req[r].status = 301
            /\ req[r].headers.location = req[r].env.PATH_INFO \o Slash
            /\ Roles(r) \subseteq {"info_head"}

C2_Witness ==
    \E r \in Reqs :
        /\ Done(r) /\ RootRequest(r) /\ ResolvedIndex(r)
        /\ NoTrailingSlash(req[r].env.PATH_INFO)
        /\ req[r].status = 301

\* the client got the body of the error page asked for in call i of r
ClientGotPageBody(r, i) ==
    LET c == req[r].sent[i]
    IN  req[r].ret = Body("backend", c.env.PATH_INFO, c.env.QUERY_STRING, c.items)

\* C3 as stated: when the GET of the error page returns 2xx the client gets
\* the body of the error page with the status and the headers of the original
\* failure response
C3_OriginalStatusAndHeaders ==
    \A r \in Reqs :
        \A i \in Calls(r, "error_page") :
            (Done(r) /\ req[r].sent[i].status \div 100 = 2) =>
                /\ ClientGotPageBody(r, i)
                /\ req[r].started = 1
                /\ req[r].status = req[r].failure.status
                /\ req[r].headers = req[r].failure.headers

\* C3 amended: when the GET of the error page returns 2xx the client gets the
\* body and the headers of the error page with the status of the original
\* failure response
C3_OriginalStatusPageHeaders ==
    \A r \in Reqs :
        \A i \in Calls(r, "error_page") :
            (Done(r) /\ req[r].sent[i].status \div 100 = 2) =>
                /\ ClientGotPageBody(r, i)
                /\ req[r].started = 1
                /\ req[r].status = req[r].failure.status
                /\ req[r].headers.src = "backend"
                /\ req[r].headers.path = req[r].sent[i].env.PATH_INFO
                /\ req[r].headers # req[r].failure.headers

C3_Witness ==
    \E r \in Reqs :
        \E i \in Calls(r, "error_page") :
            /\ Done(r)
            /\ req[r].sent[i].status = 200
            /\ req[r].failure.status = 403
            /\ req[r].status = 403

\* the error suffix of the container of r's path, as the cluster stores it
ContainerErrorSuffix(r) ==
    LET c == split_path(req[r].env.PATH_INFO).container
    IN  IF c \in Containers THEN Strip(backend.meta[c][2]) ELSE Empty

\* C4: an object request whose literal sub-request fails with a status other
\* than 404, in a container whose metadata has an error suffix, asks for
\* /version/account/container/{status}{suffix} and, when that returns 2xx,
\* gives the client the failure status with the body of the error page,
\* whatever the instance handled before
C4_ObjectFailureErrorPage ==
    \A r \in Reqs :
        (/\ Done(r) /\ ObjectRequest(r)
         /\ Calls(r, "object_literal") # {}
         /\ req[r].sent[1].status \div 100 \notin {2, 3}
         /\ req[r].sent[1].status # 404
         /\ ContainerErrorSuffix(r) # Empty) =>
            /\ Calls(r, "error_page") # {}
            /\ \A i \in Calls(r, "error_page") :
                 /\ req[r].sent[i].env.PATH_INFO =
                        Root(split_path(req[r].env.PATH_INFO).container) \o Slash
                        \o StatusStr(req[r].sent[1].status) \o ContainerErrorSuffix(r)
                 /\ req[r].sent[i].status \div 100 = 2 =>
                        /\ req[r].status = req[r].sent[1].status
                        /\ ClientGotPageBody(r, i)

\* C5: the lookup of a container's config that follows a PUT/POST to the
\* container root finds no entry in memcache and sends the HEAD probe
C5_FreshProbeAfterWrite ==
    \A r \in Reqs :
        req[r].afterInval # "no" =>
            /\ ~req[r].hit
            /\ \/ req[r].pc = "info_head"
               \/ \E i \in Calls(r, "info_head") :
                    /\ req[r].sent[i].env.REQUEST_METHOD = "HEAD"
                    /\ req[r].sent[i].env.PATH_INFO =
                         Root(split_path(req[r].env.PATH_INFO).container)

\* the write removed an entry whose timeout had not elapsed, and the next
\* lookup probed the cluster
C5_Witness ==
    \E r \in Reqs :
        /\ req[r].afterInval = "entry"
        /\ Done(r)
        /\ Calls(r, "info_head") # {}

\* what the unchanging cluster holds, as far as it has said
Holds(k, a) == k \in DOMAIN backend.memo /\ backend.memo[k] = a

NoObject(p) == Holds(<<p, Empty>>, [status |-> 404, items |-> FALSE])

ObjectExists(p) == Holds(<<p, Empty>>, [status |-> 200, items |-> FALSE])

DirNonEmpty(p) ==
    Holds(<<Root(split_path(p).container), <<"prefix=">> \o split_path(p).obj \o Slash>>,
          [status |-> 200, items |-> TRUE])

\* the index name in the metadata of the container of p
ConfiguredIndex(p) == Strip(backend.meta[split_path(p).container][1])

\* p names a pseudo-directory: the index object under p + "/" exists or the
\* listing of the prefix p + "/" has entries
PseudoDirectory(p) ==
    \/ ~Falsy(ConfiguredIndex(p)) /\ ObjectExists(p \o Slash \o ConfiguredIndex(p))
    \/ DirNonEmpty(p)

\* ... in a container with an index: the index object under p + "/" exists,
\* or it does not and the listing of the prefix p + "/" has entries
PseudoDirectoryWithIndex(p) ==
    /\ ~Falsy(ConfiguredIndex(p))
    /\ \/ ObjectExists(p \o Slash \o ConfiguredIndex(p))
       \/ NoObject(p \o Slash \o ConfiguredIndex(p)) /\ DirNonEmpty(p)

WithoutSlash(p) == SubSeq(p, 1, Len(p) - 1)

\* C6 as stated: against an unchanging cluster, an object path without
\* trailing "/" that has no object but names a pseudo-directory is answered
\* 301 to the path + "/", and the request of that path + "/" is answered 200
C6_PseudoDirRedirect ==
    \A r \in Reqs :
        (Done(r) /\ ObjectRequest(r)) =>
            LET p == req[r].env.PATH_INFO
            IN  /\ (NoTrailingSlash(p) /\ NoObject(p) /\ PseudoDirectory(p)) =>
                       /\ req[r].started = 1 /\ req[r].status = 301
                       /\ req[r].headers.location = p \o Slash
                /\ (/\ ~NoTrailingSlash(p)
                    /\ NoObject(WithoutSlash(p))
                    /\ PseudoDirectory(WithoutSlash(p))) =>
                       req[r].started = 1 /\ req[r].status = 200

\* C6 amended: against an unchanging cluster, in a container whose config has
\* an index that the request resolves, an object path without trailing "/"
\* that has no object but names a pseudo-directory (the index object under
\* path + "/" exists, or it does not and the listing of the prefix has
\* entries) is answered 301 to the path + "/"; the request of that path + "/"
\* is answered 200, or 304 when it is conditional, and never redirected,
\* provided the object named path + "/" exists or answers 404
C6_IndexedPseudoDirRedirect ==
    \A r \in Reqs :
        (/\ Done(r) /\ ObjectRequest(r)
         /\ req[r].resolved # NoEntry => ResolvedIndex(r)) =>
            LET p == req[r].env.PATH_INFO
            IN  /\ (NoTrailingSlash(p) /\ NoObject(p) /\ PseudoDirectoryWithIndex(p)) =>
                       /\ req[r].started = 1 /\ req[r].status = 301
                       /\ req[r].headers.location = p \o Slash
                /\ (/\ ~NoTrailingSlash(p)
                    /\ NoObject(WithoutSlash(p))
                    /\ PseudoDirectoryWithIndex(WithoutSlash(p))
                    /\ NoObject(p) \/ ObjectExists(p)) =>
                       /\ req[r].started = 1
                       /\ req[r].status \in {200, 304}
                       /\ req[r].status = 304 => req[r].env.HTTP_IF

\* after the path without "/" was asked for, the path with "/" is answered
\* with the listing of the pseudo-directory
C6_Witness ==
    \E r \in Reqs :
        /\ Done(r) /\ ObjectRequest(r)
        /\ ~NoTrailingSlash(req[r].env.PATH_INFO)
        /\ NoObject(WithoutSlash(req[r].env.PATH_INFO))
        /\ PseudoDirectoryWithIndex(WithoutSlash(req[r].env.PATH_INFO))
        /\ req[r].status = 200
        /\ req[r].ret.src = "listing"

\* the sub-request of a place of the code is pending or answered
Issued(r, role) == req[r].pc = role \/ Calls(r, role) # {}

\* the sub-request of a place of the code was answered 404
Answered404(r, role) == \E i \in Calls(r, role) : req[r].sent[i].status = 404

\* the 404 that _error_response was given is webob's HTTPNotFound, and the
\* client got status 404
NotFoundSubstituted(r) ==
    /\ req[r].failure.status = 404
    /\ req[r].failure.body.src = "HTTPNotFound"
    /\ req[r].started = 1
    /\ req[r].status = 404

\* C7: the limit=1 listing probe with prefix = object name + "/" is sent when,
\* and only when, the path has no trailing "/", the object answered 404, an
\* index is configured and the index object answered 404; 2xx with entries
\* gives 301 to path + "/", anything else a 404 through error substitution
C7_ProbeAfterIndex404 ==
    \A r \in Reqs :
        LET sp == split_path(req[r].env.PATH_INFO)
        IN  /\ Issued(r, "probe") <=>
                  /\ ObjectRequest(r)
                  /\ NoTrailingSlash(req[r].env.PATH_INFO)
                  /\ Answered404(r, "object_literal")
                  /\ ResolvedIndex(r)
                  /\ Answered404(r, "object_index")
            /\ req[r].pc = "probe" =>
                  /\ req[r].pend.REQUEST_METHOD = "GET"
                  /\ req[r].pend.PATH_INFO = Root(sp.container)
                  /\ req[r].pend.QUERY_STRING = ProbeQuery(sp.obj)
                  /\ ~req[r].pend.HTTP_IF
            /\ Cardinality(Calls(r, "probe")) <= 1
            /\ \A i \in Calls(r, "probe") :
                  /\ req[r].sent[i].env.QUERY_STRING = ProbeQuery(sp.obj)
                  /\ Done(r) =>
                       IF req[r].sent[i].status \div 100 = 2 /\ req[r].sent[i].items
                       THEN /\ req[r].started = 1 /\ req[r].status = 301
                            /\ req[r].headers.location = req[r].env.PATH_INFO \o Slash
                       ELSE NotFoundSubstituted(r)

\* both outcomes of the probe
C7_Witness ==
    \E r \in Reqs :
        /\ Done(r)
        /\ \E i \in Calls(r, "probe") : req[r].sent[i].status = 200 /\ ~req[r].sent[i].items
        /\ req[r].status = 404
        /\ Calls(r, "error_page") # {}

\* the prefix _listing is given for the path of r
ListingPrefix(r) ==
    IF RootRequest(r) THEN None ELSE split_path(req[r].env.PATH_INFO).obj

\* C8: the listing is asked for only for a path with trailing "/" after the
\* index answered 404 (a container root, or an object path whose object
\* answered 404 too); it is one GET of the container with the query
\* delimiter=/&format=json and the prefix; not 2xx goes to error substitution
\* as it is, an empty listing as a 404, and a listing with entries gives 200
\* text/html
C8_ListingOnce ==
    \A r \in Reqs :
        /\ Issued(r, "listing") =>
              /\ ~NoTrailingSlash(req[r].env.PATH_INFO)
              /\ ResolvedIndex(r)
              /\ \/ RootRequest(r) /\ Answered404(r, "container_index")
                 \/ /\ ObjectRequest(r)
                    /\ Answered404(r, "object_literal")
                    /\ Answered404(r, "object_index")
        /\ (Done(r) /\ Issued(r, "listing")) =>
              /\ Cardinality(Calls(r, "listing")) = 1
              /\ \A i \in Calls(r, "listing") :
                   LET c == req[r].sent[i]
                   IN  /\ c.env.REQUEST_METHOD = "GET"
                       /\ c.env.PATH_INFO = Root(split_path(req[r].env.PATH_INFO).container)
                       /\ c.env.QUERY_STRING = ListingQuery(ListingPrefix(r))
                       /\ c.status \div 100 # 2 =>
                            req[r].failure =
                                Failure(c.status,
                                        Headers("backend", c.env.PATH_INFO, c.env.QUERY_STRING,
                                                NoMeta, Empty, Empty),
                                        Body("backend", c.env.PATH_INFO, c.env.QUERY_STRING, c.items))
                       /\ (c.status \div 100 = 2 /\ ~c.items) => NotFoundSubstituted(r)
                       /\ (c.status \div 100 = 2 /\ c.items) =>
                            /\ req[r].started = 1 /\ req[r].status = 200
                            /\ req[r].headers.ctype = <<"text/html">>
                            /\ req[r].ret.src = "listing"
                            /\ req[r].failure = NoFailure

\* an empty listing of a pseudo-directory
C8_Witness ==
    \E r \in Reqs :
        /\ Done(r) /\ ObjectRequest(r)
        /\ \E i \in Calls(r, "listing") : req[r].sent[i].status = 200 /\ ~req[r].sent[i].items
        /\ req[r].status = 404

\* C9: every request ends with one call of the client's start_response and a
\* body returned
C9_AlwaysResponds ==
    \A r \in Reqs :
        Done(r) =>
            /\ req[r].started = 1
            /\ req[r].status # 0
            /\ req[r].ret.src \notin {"none", "None"}

\* C10: no request reads a value of the instance that another request wrote
\* over its own, and the sub-requests a request makes for its container (the
\* metadata probe, the listings, the error page) go to the container of its
\* own path
C10_RequestsIsolated ==
    \A r \in Reqs :
        /\ ~req[r].foreign
        /\ \A i \in DOMAIN req[r].sent :
             req[r].sent[i].role \in {"info_head", "probe", "listing", "error_page"} =>
                 split_path(req[r].sent[i].env.PATH_INFO).container =
                     split_path(req[r].env.PATH_INFO).container

\* the request went to the cluster once, as it came, and the client got the
\* answer as it came
ForwardedOnce(r) ==
    /\ Cardinality(Calls(r, "forward")) = 1
    /\ \A i \in Calls(r, "forward") :
         /\ req[r].sent[i].env = req[r].env
         /\ req[r].sent[i].hook = "client"
         /\ ClientGotCall(r, i)

\* the HEAD probe of r was answered with a failure
ProbeFailed(r) == \E i \in Calls(r, "info_head") : req[r].sent[i].status \div 100 # 2

\* C11: when the HEAD probe of the container's metadata is answered non-2xx
\* the config is empty and nothing is cached; the request goes on as without
\* static web: it is forwarded once, unchanged, the client gets the answer to
\* that and not the probe's, and no index, listing, pseudo-directory or
\* error-page sub-request is made
C11_ProbeFailureDisablesWeb ==
    \A r \in Reqs :
        ProbeFailed(r) =>
            /\ req[r].resolved = <<None, None, None>>
            /\ req[r].pc \in {"forward", "done"}
            /\ Roles(r) \subseteq {"object_literal", "info_head", "forward"}
            /\ Cardinality(Calls(r, "info_head")) = 1
            /\ req[r].env.swift_cache =>
                 cache[MemcacheKey(<<"v1">>, <<"a">>,
                                   split_path(req[r].env.PATH_INFO).container)] = NoEntry
            /\ Done(r) => ForwardedOnce(r)

\* an object request whose probe was refused, answered with the cluster's 404
C11_Witness ==
    \E r \in Reqs :
        /\ Done(r) /\ ObjectRequest(r)
        /\ \E i \in Calls(r, "info_head") : req[r].sent[i].status = 403
        /\ req[r].status = 404

\* the environment without what says who asks
Anonymous(env) == [env EXCEPT !.REMOTE_USER = FALSE, !.HTTP_X_WEB_MODE = Empty]

\* the request of slot r with environment env, as __call__ leaves it
Called(r, env) ==
    LET out == call(self, [IdleReq(r) EXCEPT !.env = env])
    IN  [self |-> out.self,
         req |-> [out.req EXCEPT !.env = Anonymous(@), !.pend = Anonymous(@)]]

\* C12: a HEAD/GET of an authenticated user without a true X-Web-Mode is
\* forwarded once, unchanged, with no memcache call and no other call of the
\* cluster; with a true X-Web-Mode __call__ takes it where it takes the same
\* request of an anonymous user
C12_WebModeOptIn ==
    /\ \A r \in Reqs :
         (/\ req[r].pc # "idle"
          /\ req[r].env.REQUEST_METHOD \in {"HEAD", "GET"}
          /\ req[r].env.REMOTE_USER
          /\ req[r].env.HTTP_X_WEB_MODE \notin TRUE_VALUES) =>
             /\ req[r].pc \in {"forward", "done"}
             /\ req[r].ops = << >>
             /\ Roles(r) \subseteq {"forward"}
             /\ Done(r) => ForwardedOnce(r)
    /\ \A env \in Requests :
         (/\ env.REQUEST_METHOD \in {"HEAD", "GET"}
          /\ env.REMOTE_USER
          /\ env.HTTP_X_WEB_MODE \in TRUE_VALUES) =>
             Called("r1", env) = Called("r1", Anonymous(env))

\* a request with X-Web-Mode: no for the root of a container that has an
\* index, answered by the cluster
C12_Witness ==
    \E r \in Reqs :
        /\ Done(r) /\ req[r].env.REMOTE_USER
        /\ req[r].env.PATH_INFO = Root(<<"c1">>)
        /\ req[r].env.HTTP_X_WEB_MODE = <<"no">>
        /\ ~Falsy(ConfiguredIndex(req[r].env.PATH_INFO))
        /\ req[r].status = 200

\* the path of r is a container root: it parses, container present, object absent
ContainerRootPath(r) ==
    LET sp == split_path(req[r].env.PATH_INFO)
    IN  sp.ok /\ ~Falsy(sp.container) /\ Falsy(sp.obj)

\* the one memcache call of a write to a container root: the delete of the
\* container's key, before any call of the cluster
OwnDelete(r) ==
    LET sp == split_path(req[r].env.PATH_INFO)
    IN  <<[op |-> "delete", key |-> MemcacheKey(sp.version, sp.account, sp.container),
           at |-> 0, timeout |-> 0]>>

\* C13: a PUT/POST is forwarded once, unchanged; with memcache in the
\* pipeline it deletes the key of its container, before it is forwarded, when
\* and only when its path is a container root; no other memcache call and no
\* sub-request is made for a PUT/POST nor for a method other than HEAD/GET
C13_WritePassThrough ==
    \A r \in Reqs :
        (req[r].pc # "idle" /\ req[r].env.REQUEST_METHOD \notin {"HEAD", "GET"}) =>
            /\ Roles(r) \subseteq {"forward"}
            /\ Done(r) => ForwardedOnce(r)
            /\ IF /\ req[r].env.REQUEST_METHOD \in {"PUT", "POST"}
                  /\ req[r].env.swift_cache
                  /\ ContainerRootPath(r)
               THEN \/ req[r].pc = "delete" /\ req[r].ops = << >>
                    \/ req[r].pc \in {"forward", "done"} /\ req[r].ops = OwnDelete(r)
               ELSE req[r].pc \in {"forward", "done"} /\ req[r].ops = << >>

\* a POST to a container root took the container's entry out of memcache and
\* was answered by the cluster
C13_Witness ==
    \E r \in Reqs :
        /\ Done(r)
        /\ req[r].env.REQUEST_METHOD = "POST"
        /\ req[r].ops = OwnDelete(r)
        /\ <<req[r].ops[1].key, "entry">> \in invalidated
        /\ cache[req[r].ops[1].key] = NoEntry
        /\ req[r].status = 200

\* the path of r names an account only: it parses and has no container
AccountPath(r) ==
    LET sp == split_path(req[r].env.PATH_INFO)
    IN  sp.ok /\ Falsy(sp.container) /\ Falsy(sp.obj)

\* C14: a request whose path split_path rejects, whatever its method, and a
\* HEAD/GET of an account path are forwarded once, unchanged, with no
\* memcache call, no metadata probe and no other sub-request
C14_UnparsedPassThrough ==
    \A r \in Reqs :
        (/\ req[r].pc # "idle"
         /\ \/ ~split_path(req[r].env.PATH_INFO).ok
            \/ AccountPath(r) /\ req[r].env.REQUEST_METHOD \in {"HEAD", "GET"}) =>
            /\ req[r].pc \in {"forward", "done"}
            /\ req[r].pc = "forward" => req[r].pend = req[r].env
            /\ req[r].ops = << >>
            /\ req[r].resolved = NoEntry
            /\ Roles(r) \subseteq {"forward"}
            /\ Done(r) => ForwardedOnce(r)

\* a POST with memcache in the pipeline to a path that does not parse
C14_Witness ==
    \E r \in Reqs :
        /\ Done(r)
        /\ ~split_path(req[r].env.PATH_INFO).ok
        /\ req[r].env.REQUEST_METHOD = "POST"
        /\ req[r].env.swift_cache
        /\ req[r].started = 1

\* the rows of the entries: all but the parent row
EntryRows == SelectSeq(table.rows, LAMBDA row : row.kind # "parent")

\* C15 as stated: the rows come in the order of the entries of the JSON array
C15_BackendOrder ==
    table.pc = "rendered" =>
        \A a, b \in 1..Len(EntryRows) :
            a < b => EntryRows[a].from < EntryRows[b].from

\* C15 amended: after the parent row, which is there when and only when there
\* is a prefix, come the rows of the subdir entries and then the rows of the
\* object entries, one row per entry; among the subdirs and among the objects
\* the order is that of the JSON array
C15_SubdirsFirstInOrder ==
    table.pc = "rendered" =>
        /\ Len(EntryRows) = Len(table.entries)
        /\ Len(table.rows) = Len(EntryRows) + (IF Falsy(table.prefix) THEN 0 ELSE 1)
        /\ ~Falsy(table.prefix) => table.rows[1] = ParentRow
        /\ \A a \in 1..Len(EntryRows) :
             /\ EntryRows[a].from \in 1..Len(table.entries)
             /\ EntryRows[a].kind = table.entries[EntryRows[a].from].kind
        /\ \A a, b \in 1..Len(EntryRows) :
             a < b =>
                /\ ~(EntryRows[a].kind = "name" /\ EntryRows[b].kind = "subdir")
                /\ EntryRows[a].kind = EntryRows[b].kind =>
                     EntryRows[a].from < EntryRows[b].from

\* an object listed before a subdir, under a prefix
C15_Witness ==
    /\ table.pc = "rendered"
    /\ ~Falsy(table.prefix)
    /\ Len(table.entries) = 3
    /\ table.entries[1].kind = "name"
    /\ table.entries[2].kind = "subdir"
    /\ table.entries[3].kind = "name"

\* the request was sent down the pipeline, once
QuotaForwarded ==
    /\ quota.pc = "done"
    /\ Cardinality({i \in 1..Len(quota.sent) : quota.sent[i].role = "request"}) = 1

\* the request was answered by the filter and never sent down the pipeline
QuotaRefused(status) ==
    /\ quota.pc = "done"
    /\ quota.status = status
    /\ \A i \in 1..Len(quota.sent) : quota.sent[i].role # "request"

\* a PUT or POST whose path parses
QuotaWrite == quota.method \in {"PUT", "POST"} /\ split_path(quota.path).ok

\* a write that is not a reseller's, without quota header, for which the
\* account's bytes are known
QuotaChecked ==
    /\ QuotaWrite
    /\ quota.reseller_request # "True"
    /\ quota.new_quota = None
    /\ quota.info.present
    /\ quota.info.bytes.type # "NoneType"

\* the size of the incoming write: that of the copy source for a copy, 0 when
\* it is unknown
WriteSize ==
    IF ~Falsy(split_path(quota.path).obj) /\ ~Falsy(quota.copy_from)
    THEN OrZero(quota.copy)
    ELSE OrZero(quota.content_length)

C17_QuotaWriteResellerOnly ==
    (quota.pc \notin {"none", "call"} /\ QuotaWrite) =>
        /\ (quota.reseller_request # "True" /\ quota.new_quota # None) =>
              QuotaRefused(403)
        /\ quota.reseller_request = "True" =>
              /\ quota.sent = << >> \/ QuotaForwarded
              /\ Len(quota.sent) <= 1
              /\ quota.info = NoInfo
              /\ IF ~Falsy(quota.new_quota) /\ ~isdigit(quota.new_quota)
                 THEN QuotaRefused(400)
                 ELSE quota.pc \in {"forward", "done"} /\ quota.status \in {0, 201, 404}

\* a write with an empty quota header by a user who is no reseller
C17_Witness ==
    /\ QuotaWrite
    /\ quota.reseller_request = "None"
    /\ quota.new_quota = Empty
    /\ QuotaRefused(403)

\* a reseller's write with a quota that is no number is refused
C17_ResellerBadQuota ==
    /\ QuotaWrite
    /\ quota.reseller_request = "True"
    /\ quota.new_quota = <<"2", "x">>
    /\ QuotaRefused(400)

\* C18: on an object path whose literal object answered 404, with an index
\* configured, a failure of the index sub-request that is not a 404 goes to
\* error substitution: the client is answered with that failure's status and
\* a body, the failure's or the error page's
C18_IndexFailureSubstituted ==
    \A r \in Reqs :
        \A i \in Calls(r, "object_index") :
            (/\ Done(r) /\ ObjectRequest(r)
             /\ Answered404(r, "object_literal")
             /\ ResolvedIndex(r)
             /\ req[r].sent[i].status \div 100 \notin {2, 3}
             /\ req[r].sent[i].status # 404) =>
                /\ req[r].started = 1
                /\ req[r].status = req[r].sent[i].status
                /\ req[r].ret.src \notin {"none", "None"}
                /\ \A j \in Calls(r, "error_page") :
                     req[r].sent[j].status \div 100 = 2 => ClientGotPageBody(r, j)
                /\ (\A j \in Calls(r, "error_page") : req[r].sent[j].status \div 100 # 2) =>
                     ClientGotCall(r, i)

\* an object request whose literal object answered 404 and whose container
\* was found to have no index
NoIndex404(r) ==
    /\ Done(r) /\ ObjectRequest(r)
    /\ Answered404(r, "object_literal")
    /\ ResolvedNoIndex(r)

\* C19 as stated: the client gets the 404 already obtained for the object, and
\* the request is not sent to the cluster a second time
C19_Original404Returned ==
    \A r \in Reqs :
        NoIndex404(r) =>
            /\ Calls(r, "forward") = {}
            /\ \A i \in Calls(r, "object_literal") : ClientGotCall(r, i)

\* C19 amended: the 404 already obtained is dropped; the original request is
\* sent to the cluster a second time, unchanged, with the client's
\* start_response, and the client gets the answer to this second send,
\* whatever it is; no index, listing, probe or error-page sub-request is made
C19_NoIndexResent ==
    \A r \in Reqs :
        NoIndex404(r) =>
            /\ Cardinality(Calls(r, "object_literal")) = 1
            /\ ForwardedOnce(r)
            /\ \A i \in Calls(r, "object_literal") : \A j \in Calls(r, "forward") :
                 i < j /\ req[r].sent[i].env = req[r].sent[j].env
            /\ Roles(r) \subseteq {"object_literal", "info_head", "forward"}

\* the second send found the object that the first did not
C19_Witness ==
    \E r \in Reqs :
        /\ NoIndex404(r)
        /\ req[r].status = 200

\* the sub-request for the object itself was answered 2xx or 3xx
LiteralFound(r) ==
    /\ ObjectRequest(r)
    /\ \E i \in Calls(r, "object_literal") : req[r].sent[i].status \div 100 \in {2, 3}

\* C20: when the sub-request for the object itself is answered 2xx or 3xx the
\* client gets that response, status, headers and body, and the request is
\* over: memcache is not read, the container's config is not resolved, and no
\* HEAD probe, index, listing or error-page sub-request is sent
C20_LiteralServedVerbatim ==
    \A r \in Reqs :
        LiteralFound(r) =>
            /\ Done(r)
            /\ Roles(r) = {"object_literal"}
            /\ Len(req[r].sent) = 1
            /\ ClientGotCall(r, 1)
            /\ req[r].ops = << >>
            /\ req[r].resolved = NoEntry

\* a conditional GET of an object answered 304, by an instance that has
\* handled a request before
C20_Witness ==
    \E r \in Reqs :
        /\ LiteralFound(r)
        /\ req[r].status = 304
        /\ req[r].env.swift_cache
        /\ nreq = MaxRequests

\* error substitution ran for r: _error_response was given a failure
Substituting(r) == req[r].failure # NoFailure

\* the client got the failure _error_response was given: status, headers, body
ClientGotFailure(r) ==
    /\ req[r].started = 1
    /\ req[r].status = req[r].failure.status
    /\ req[r].headers = req[r].failure.headers
    /\ req[r].ret = req[r].failure.body

\* the error suffix configured for r: the one its metadata resolution gave
\* when it resolved, the one the cluster stores for its container otherwise
ConfiguredError(r) ==
    IF req[r].resolved # NoEntry
    THEN (IF Falsy(req[r].resolved[2]) THEN Empty ELSE req[r].resolved[2])
    ELSE ContainerErrorSuffix(r)

\* C21: in error substitution, when the container has no error suffix no
\* error-page sub-request is sent and the client gets the original failure,
\* status, headers and body; when the GET of the error page is answered
\* non-2xx the client gets the original failure too; the error page is asked
\* for at most once
C21_FallbackToOriginal ==
    \A r \in Reqs :
        (Done(r) /\ StaticWebRequest(r) /\ Substituting(r)) =>
            /\ ConfiguredError(r) = Empty =>
                  /\ Calls(r, "error_page") = {}
                  /\ ClientGotFailure(r)
            /\ Cardinality(Calls(r, "error_page")) <= 1
            /\ \A i \in Calls(r, "error_page") :
                  req[r].sent[i].status \div 100 # 2 =>
                      /\ ClientGotFailure(r)
                      /\ i = Len(req[r].sent)

\* r is a PUT/POST of a container root that deleted the cache entry, was
\* forwarded and stored, changed the container's config, and is the last such
\* write of its container
Reconfigured(r) ==
    LET c == split_path(req[r].env.PATH_INFO).container
    IN  /\ Done(r)
        /\ req[r].replaced # NoEntry
        /\ \E i \in DOMAIN req[r].ops : req[r].ops[i].op = "delete"
        /\ Stripped(req[r].env.X_CONTAINER_META) # req[r].replaced
        /\ Stripped(backend.meta[c]) = Stripped(req[r].env.X_CONTAINER_META)

\* the memcache key of the container of r's path
OwnKey(r) ==
    MemcacheKey(<<"v1">>, <<"a">>, split_path(req[r].env.PATH_INFO).container)

\* C22: however requests interleave, once a PUT/POST of a container root that
\* changes its config has deleted the cache entry and been forwarded, memcache
\* does not hold the config the container had before the write, and no
\* request is about to store it
C22_NoStaleConfigAfterWrite ==
    \A r \in Reqs :
        Reconfigured(r) =>
            /\ cache[OwnKey(r)] # req[r].replaced
            /\ \A o \in Reqs :
                 (req[o].pc = "info_set" /\ req[o].key = OwnKey(r)) =>
                     req[o].setval # req[r].replaced

\* the memcache calls of r of one kind
Ops(r, op) == {i \in DOMAIN req[r].ops : req[r].ops[i].op = op}

\* the config the cluster stores for the container of r's path, trimmed
StoredConfig(r) == Stripped(backend.meta[split_path(req[r].env.PATH_INFO).container])

\* C23: a resolution that finds an entry in memcache takes its three values
\* and calls neither the cluster nor memcache again; an entry is set only
\* after a HEAD probe of the request's container answered 2xx, under the key
\* of that container, with the three trimmed header values of the probe and
\* the configured timeout; after a probe answered non-2xx nothing is set
C23_CacheConsistent ==
    \A r \in Reqs :
        /\ req[r].hit =>
              /\ req[r].resolved # NoEntry
              /\ cache[OwnKey(r)] \in {NoEntry, req[r].resolved}
              /\ Calls(r, "info_head") = {}
              /\ req[r].pc \notin {"info_head", "info_set"}
              /\ Ops(r, "set") = {}
              /\ Cardinality(Ops(r, "get")) = 1
        /\ req[r].pc = "info_set" =>
              /\ req[r].key = OwnKey(r)
              /\ req[r].setval = StoredConfig(r)
              /\ \E j \in Calls(r, "info_head") : req[r].sent[j].status \div 100 = 2
        /\ \A i \in Ops(r, "set") :
              /\ req[r].ops[i].key = OwnKey(r)
              /\ req[r].ops[i].timeout = CacheTimeout
              /\ Cardinality(Ops(r, "set")) = 1
              /\ Cardinality(Calls(r, "info_head")) = 1
              /\ \A j \in Calls(r, "info_head") :
                    /\ j <= req[r].ops[i].at
                    /\ req[r].sent[j].status \div 100 = 2
                    /\ req[r].sent[j].env.REQUEST_METHOD = "HEAD"
                    /\ req[r].sent[j].env.PATH_INFO =
                          Root(split_path(req[r].env.PATH_INFO).container)
              /\ req[r].resolved = StoredConfig(r)
              /\ cache[OwnKey(r)] \in {NoEntry, StoredConfig(r)}
        /\ ProbeFailed(r) =>
              /\ Ops(r, "set") = {}
              /\ req[r].pc # "info_set"

\* a request that cached the trimmed index of its container
C23_Witness ==
    \E r \in Reqs :
        /\ Done(r)
        /\ Ops(r, "set") # {}
        /\ cache[OwnKey(r)] = req[r].resolved
        /\ req[r].resolved[1] = <<"index.html">>
        /\ backend.meta[<<"c1">>][1] = <<" ", "index.html">>

\* a request served from the entry another request cached
C23_HitWitness ==
    \E r \in Reqs :
        /\ Done(r)
        /\ req[r].hit
        /\ req[r].status = 301

\* tmp is the environment of the metadata probe of a request with environment
\* env: a HEAD of the container, with the cache handle and the transaction id
\* of env and nothing else of it
FreshProbe(tmp, env) ==
    /\ tmp.REQUEST_METHOD = "HEAD"
    /\ tmp.PATH_INFO = Root(split_path(env.PATH_INFO).container)
    /\ tmp.QUERY_STRING = Empty
    /\ tmp.HTTP_USER_AGENT = <<"StaticWeb">>
    /\ tmp.swift_cache = env.swift_cache
    /\ tmp.HTTP_X_CF_TRANS_ID = env.HTTP_X_CF_TRANS_ID
    /\ ~tmp.REMOTE_USER
    /\ tmp.HTTP_X_WEB_MODE = Empty
    /\ ~tmp.HTTP_IF
    /\ tmp.X_CONTAINER_META = NoMeta

\* the sub-requests that are sent without the If-* headers
Unconditional == {"info_head", "listing", "probe", "error_page"}

\* what C24 says of each state
C24_SubRequestEnvs ==
    \A r \in Reqs :
        /\ req[r].pc = "info_head" => FreshProbe(req[r].pend, req[r].env)
        /\ req[r].pc \in Unconditional => ~req[r].pend.HTTP_IF
        /\ \A i \in DOMAIN req[r].sent :
             /\ req[r].sent[i].role = "info_head" =>
                   FreshProbe(req[r].sent[i].env, req[r].env)
             /\ req[r].sent[i].role \in Unconditional => ~req[r].sent[i].env.HTTP_IF

\* C24: the metadata probe is a HEAD of /version/account/container in a fresh
\* environment that has of the request's only the cache handle and the
\* transaction id, not its method, query string, user, X-Web-Mode or If-*
\* headers; the listing, the pseudo-directory probe and the error-page
\* sub-request go without If-* headers; and the environment of the request
\* stays as it came while the request is handled
C24_ProbeFreshIfsStripped ==
    /\ []C24_SubRequestEnvs
    /\ [][\A r \in Reqs : req[r].pc \notin {"idle", "done"} => req'[r].env = req[r].env]_vars

\* a conditional request that went through the probe and a listing, and an
\* authenticated one that went through the probe
C24_Witness ==
    \E r \in Reqs :
        /\ Done(r)
        /\ req[r].env.HTTP_IF
        /\ req[r].env.swift_cache
        /\ Calls(r, "info_head") # {}
        /\ Calls(r, "listing") # {}
        /\ Calls(r, "error_page") # {}

C24_AuthWitness ==
    \E r \in Reqs :
        /\ Done(r)
        /\ req[r].env.REMOTE_USER
        /\ Calls(r, "info_head") # {}

\* the place of a sub-request in the order of the code
Rank(role) ==
    CASE role = "object_literal" -> 1
      [] role = "info_head" -> 2
      [] role \in {"container_index", "object_index", "forward"} -> 3
      [] role \in {"listing", "probe"} -> 4
      [] role = "error_page" -> 5

\* the places of the code where a request waits for the cluster
Waiting == {"object_literal", "info_head", "container_index", "object_index",
            "forward", "listing", "probe", "error_page"}

\* the calls of the cluster that r made are at most 5 and each lies later in
\* the order of the code than the ones before it, as does the one r waits for
C25_Sequential ==
    \A r \in Reqs :
        /\ Len(req[r].sent) <= 5
        /\ \A i, j \in DOMAIN req[r].sent :
             i < j => Rank(req[r].sent[i].role) < Rank(req[r].sent[j].role)
        /\ req[r].pc \in Waiting =>
             \A i \in DOMAIN req[r].sent : Rank(req[r].sent[i].role) < Rank(req[r].pc)

\* C25: when every call returns, every request comes to its end, after at most
\* 5 calls of the cluster (object, metadata probe, index, listing or
\* pseudo-directory probe, error page), one after the other in this order and
\* none of them twice
C25_TerminatesBounded ==
    /\ []C25_Sequential
    /\ \A r \in Reqs : (req[r].pc \notin {"idle", "done"}) ~> Done(r)

\* a request that made all five calls
C25_Witness ==
    \E r \in Reqs :
        /\ Done(r)
        /\ Len(req[r].sent) = 5
        /\ req[r].sent[4].role = "probe"
        /\ req[r].sent[5].role = "error_page"

====
